\* An untagged parameter without a session token, delivery_method GET with a
\* POST-tagged parameter, and an optional parameter on an input's api_path.
CONSTANTS
  Documents <- DisagreeingDocs
  Absent = Absent
SPECIFICATION Spec
PROPERTY ImplementsEncodePolicy
\* A request object is sent once; nothing follows.
CHECK_DEADLOCK FALSE
