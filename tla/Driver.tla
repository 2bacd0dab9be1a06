------------------------------- MODULE Driver -------------------------------
(***************************************************************************)
(* The driver of gen_api_template.py (main) with the idempotent writer     *)
(* (write_contents) and the per-domain aggregation: one run discovers the *)
(* documents in whatever order the directory walk yields, keeps the valid  *)
(* ones, generates and writes each document's .cpp and .hpp, accumulates   *)
(* the domain metadata, then writes one aggregation header per domain and  *)
(* the build manifest.  The program may be run again over the same        *)
(* documents, and a run may be killed at any point, in particular between *)
(* open(filepath, 'w') truncating a file and f.write filling it.          *)
(*                                                                         *)
(* File contents are abstract: a document's generated .cpp/.hpp is tagged *)
(* with the document, an aggregation header is the metadata it is         *)
(* rendered from, the manifest is the two sorted lists it prints (bags).  *)
(***************************************************************************)
EXTENDS Naturals, FiniteSets, Bags, PathNaming

CONSTANTS
  Docs,         \* the *.json documents under the source root
  Api,          \* Api[d]: the document's "api" string split on "/"
  Version,      \* Version[d]: str of its "version" split on "."
  IsDefault,    \* IsDefault[d]: api['default_version'] is True
  Valid,        \* the documents for which api_template_errors is empty
  Unsupported,  \* the documents on which a fragment generator raises
  StrLess(_, _),\* Python's (code point) order on version strings
  MaxRuns       \* how many times the program is started

VARIABLES
  fs,           \* output file path -> content
  pc,           \* where the current run is
  apis,         \* json_apis still to be generated, in discovery order
  cur,          \* the document whose files are being written
  domains,      \* domains: domain -> [safe, headers, versions, default]
  emitted,      \* domains whose aggregation header this run has written
  sources,      \* source_files
  headerFiles,  \* header_files
  modified,     \* paths this run reported "modified"
  lastOutcome,  \* how the previous run ended
  runs,         \* runs started so far
  prevModified  \* history: the paths the previous run reported "modified"

vars == <<fs, pc, apis, cur, domains, emitted, sources, headerFiles,
          modified, lastOutcome, runs, prevModified>>

\* Every file content is a record, so that any two of them can be compared.
NoFile    == [file |-> "none"]       \* the file does not exist
Stale     == [file |-> "stale"]      \* left by older documents or generator
Truncated == [file |-> "truncated"]  \* emptied by open(filepath, 'w') only
NoVersion == "NoVersion"  \* domain without a default_version document
NoDoc     == "NoDoc"

\* The documents main keeps (api_template_errors returned no error).
ValidDocs == Docs \cap Valid

Idle    == {"idle", "done", "failed", "killed"}
Running == {"generate", "writeHpp", "aggregate", "headers"}

VersionOf(d) == GetVersionString(Version[d])
DomainOf(d)  == Domain(Api[d])
CppOf(d)     == CppPath(Api[d], Version[d])
HppOf(d)     == HppPath(Api[d], Version[d])
CppContent(d) == [cpp |-> d]
HppContent(d) == [hpp |-> d]

\* A document on which create_templates raises, aborting main.
Fails(d) == Malformed(Api[d]) \/ d \in Unsupported

WellFormed == {d \in Docs : ~Malformed(Api[d])}
OutPaths ==
  {CppOf(d) : d \in WellFormed} \cup {HppOf(d) : d \in WellFormed}
    \cup {CommonHeaderPath(DomainOf(d)) : d \in WellFormed} \cup {ManifestPath}

\* domain_data['versions'].sort(); domain_data['versions'][-1]
LexLast(S) == CHOOSE v \in S : \A w \in S : w = v \/ StrLess(w, v)

\* Mutant: the header always selects the lexicographically last version,
\* ignoring default_version.
HeaderContentLexOnly(e) ==
  [safe |-> e.safe, includes |-> ToBag(e.headers), version |-> LexLast(ToSet(e.versions))]

\* create_common_headers: the namespace parts of the domain, the sorted
\* header list it includes and the version it selects.
HeaderContent(e) ==
  [safe     |-> e.safe,
   includes |-> ToBag(e.headers),
   version  |-> IF e.default # NoVersion THEN e.default
                ELSE LexLast(ToSet(e.versions))]

\* generate_cmake_include: both lists are sorted before being printed.
ManifestContent == [sources |-> ToBag(sources), headers |-> ToBag(headerFiles)]

\* The entry of d's domain, created from d when d is the first of it.
Entry(d) ==
  IF DomainOf(d) \in DOMAIN domains THEN domains[DomainOf(d)]
  ELSE [safe |-> Safe(Api[d]), headers |-> <<>>, versions |-> <<>>,
        default |-> NoVersion]

Added(d) == [Entry(d) EXCEPT !.headers  = Append(@, HppOf(d)),
                             !.versions = Append(@, VersionOf(d))]

PutDomain(dom, e) ==
  [x \in DOMAIN domains \cup {dom} |-> IF x = dom THEN e ELSE domains[x]]

\* Mutant: write_contents without the comparison with the existing file.
WriteContentsAlways(p, c, nextPc) ==
  \/ /\ fs' = [fs EXCEPT ![p] = c]
     /\ modified' = modified \cup {p}
     /\ pc' = nextPc
  \/ /\ fs' = [fs EXCEPT ![p] = Truncated]
     /\ pc' = "killed"
     /\ UNCHANGED modified

(***************************************************************************)
(* write_contents(contents, filepath) followed by the run going on at     *)
(* nextPc: unchanged content is not written and not reported; otherwise   *)
(* the file is written and reported "modified", unless the process is     *)
(* killed after open(filepath, 'w') truncated it.                          *)
(***************************************************************************)
WriteContents(p, c, nextPc) ==
  \/ /\ fs[p] = c
     /\ pc' = nextPc
     /\ UNCHANGED <<fs, modified>>
  \/ /\ fs[p] # c
     /\ fs' = [fs EXCEPT ![p] = c]
     /\ modified' = modified \cup {p}
     /\ pc' = nextPc
  \/ /\ fs[p] # c
     /\ fs' = [fs EXCEPT ![p] = Truncated]
     /\ pc' = "killed"
     /\ UNCHANGED modified

Init ==
  \* a fresh destination, or one holding the output of older documents
  /\ fs \in {[p \in OutPaths |-> NoFile], [p \in OutPaths |-> Stale]}
  /\ pc = "idle"
  /\ apis = <<>>
  /\ cur = NoDoc
  /\ domains = <<>>
  /\ emitted = {}
  /\ sources = <<>>
  /\ headerFiles = <<>>
  /\ modified = {}
  /\ lastOutcome = "idle"
  /\ runs = 0
  /\ prevModified = {}

\* Mutant: the documents with schema errors are generated too.
StartRunUnfiltered ==
  /\ pc \in Idle
  /\ runs < MaxRuns
  /\ \E order \in SetToSeqs(Docs) : apis' = order
  /\ pc' = "generate"
  /\ lastOutcome' = pc
  /\ runs' = runs + 1
  /\ cur' = NoDoc
  /\ domains' = <<>>
  /\ emitted' = {}
  /\ sources' = <<>>
  /\ headerFiles' = <<>>
  /\ prevModified' = modified
  /\ modified' = {}
  /\ UNCHANGED fs

(***************************************************************************)
(* main, up to the generation loop: walk the source root (in any order),  *)
(* keep the documents without schema errors, reset the accumulators.      *)
(***************************************************************************)
StartRun ==
  /\ pc \in Idle
  /\ runs < MaxRuns
  /\ \E order \in SetToSeqs(Docs) :
        apis' = SelectSeq(order, LAMBDA d : d \in ValidDocs)
  /\ pc' = "generate"
  /\ lastOutcome' = pc
  /\ runs' = runs + 1
  /\ cur' = NoDoc
  /\ domains' = <<>>
  /\ emitted' = {}
  /\ sources' = <<>>
  /\ headerFiles' = <<>>
  /\ prevModified' = modified
  /\ modified' = {}
  /\ UNCHANGED fs

CreateTemplates ==
  /\ pc = "generate"
  /\ apis # <<>>
  /\ LET d == Head(apis) IN
       \/ /\ Fails(d)
          /\ pc' = "failed"
          /\ UNCHANGED <<fs, modified, apis, cur>>
       \/ /\ ~Fails(d)
          /\ WriteContents(CppOf(d), CppContent(d), "writeHpp")
          /\ cur' = d
          /\ apis' = Tail(apis)
  /\ UNCHANGED <<domains, emitted, sources, headerFiles, lastOutcome, runs, prevModified>>

\* create_templates, writing the .hpp.
WriteHpp ==
  /\ pc = "writeHpp"
  /\ WriteContents(HppOf(cur), HppContent(cur), "aggregate")
  /\ UNCHANGED <<apis, cur, domains, emitted, sources, headerFiles,
                 lastOutcome, runs, prevModified>>

\* Mutant: a later default_version document replaces the earlier one
\* instead of raising UnuniqueParameter.
AggregateUnchecked ==
  /\ pc = "aggregate"
  /\ sources' = Append(sources, CppOf(cur))
  /\ headerFiles' = Append(headerFiles, HppOf(cur))
  /\ domains' = PutDomain(DomainOf(cur),
                  IF IsDefault[cur] THEN [Added(cur) EXCEPT !.default = VersionOf(cur)]
                  ELSE Added(cur))
  /\ pc' = "generate"
  /\ UNCHANGED <<fs, apis, cur, emitted, modified, lastOutcome, runs, prevModified>>

(***************************************************************************)
(* main, after create_templates returned: record the files and the domain *)
(* metadata; a second default_version document in a domain raises         *)
(* UnuniqueParameter.                                                      *)
(***************************************************************************)
Aggregate ==
  /\ pc = "aggregate"
  /\ sources' = Append(sources, CppOf(cur))
  /\ headerFiles' = Append(headerFiles, HppOf(cur))
  /\ \/ /\ IsDefault[cur] /\ Entry(cur).default # NoVersion
        /\ domains' = PutDomain(DomainOf(cur), Added(cur))
        /\ pc' = "failed"
     \/ /\ ~(IsDefault[cur] /\ Entry(cur).default # NoVersion)
        /\ domains' = PutDomain(DomainOf(cur),
                        IF IsDefault[cur]
                        THEN [Added(cur) EXCEPT !.default = VersionOf(cur)]
                        ELSE Added(cur))
        /\ pc' = "generate"
  /\ UNCHANGED <<fs, apis, cur, emitted, modified, lastOutcome, runs, prevModified>>

\* The generation loop is over.
EndGenerate ==
  /\ pc = "generate"
  /\ apis = <<>>
  /\ pc' = "headers"
  /\ UNCHANGED <<fs, apis, cur, domains, emitted, sources, headerFiles,
                 modified, lastOutcome, runs, prevModified>>

\* One iteration of the loop over domains (dict order, so any order).
EmitCommonHeader(dom) ==
  /\ pc = "headers"
  /\ dom \in DOMAIN domains \ emitted
  /\ headerFiles' = Append(headerFiles, CommonHeaderPath(dom))
  /\ WriteContents(CommonHeaderPath(dom), HeaderContent(domains[dom]), "headers")
  /\ emitted' = emitted \cup {dom}
  /\ UNCHANGED <<apis, cur, domains, sources, lastOutcome, runs, prevModified>>

\* generate_cmake_include, the last statement of main.
GenerateCmake ==
  /\ pc = "headers"
  /\ emitted = DOMAIN domains
  /\ WriteContents(ManifestPath, ManifestContent, "done")
  /\ UNCHANGED <<apis, cur, domains, emitted, sources, headerFiles,
                 lastOutcome, runs, prevModified>>

\* The process is killed between two statements.
Kill ==
  /\ pc \in Running
  /\ pc' = "killed"
  /\ UNCHANGED <<fs, apis, cur, domains, emitted, sources, headerFiles,
                 modified, lastOutcome, runs, prevModified>>

Next ==
  \/ StartRun
  \/ CreateTemplates
  \/ WriteHpp
  \/ Aggregate
  \/ EndGenerate
  \/ \E dom \in DOMAIN domains : EmitCommonHeader(dom)
  \/ GenerateCmake
  \/ Kill

Spec == Init /\ [][Next]_vars

-----------------------------------------------------------------------------
(***************************************************************************)
(* The output a complete run must leave, defined from the documents alone *)
(* (spec sections 5 and 6): every valid document's two files; for every   *)
(* domain a header including every version's .hpp, naming the domain's   *)
(* namespace and selecting the default_version document, or else the      *)
(* lexicographically last version; the manifest of all of them.           *)
(***************************************************************************)
DocsOf(dom) == {d \in ValidDocs \cap WellFormed : DomainOf(d) = dom}
GeneratedDomains == {DomainOf(d) : d \in ValidDocs \cap WellFormed}

ImageBag(S, F(_)) == [x \in {F(s) : s \in S} |-> Cardinality({s \in S : F(s) = x})]

ExpectedHeader(dom) ==
  LET ds == DocsOf(dom) IN
  [safe     |-> Safe(Api[CHOOSE d \in ds : TRUE]),
   includes |-> ImageBag(ds, HppOf),
   version  |-> IF \E d \in ds : IsDefault[d]
                THEN VersionOf(CHOOSE d \in ds : IsDefault[d])
                ELSE LexLast({VersionOf(d) : d \in ds})]

ExpectedManifest ==
  [sources |-> ImageBag(ValidDocs, CppOf),
   headers |-> ImageBag(ValidDocs, HppOf) (+) ImageBag(GeneratedDomains, CommonHeaderPath)]

DefaultConflict ==
  \E dom \in GeneratedDomains : Cardinality({d \in DocsOf(dom) : IsDefault[d]}) > 1

TypeOK ==
  /\ DOMAIN fs = OutPaths
  /\ pc \in Idle \cup Running
  /\ apis \in Seq(ValidDocs)
  /\ cur \in Docs \cup {NoDoc}
  /\ emitted \subseteq DOMAIN domains
  /\ modified \subseteq OutPaths
  /\ prevModified \subseteq OutPaths
  /\ lastOutcome \in Idle
  /\ runs \in 0..MaxRuns

(***************************************************************************)
(* Whenever a run completes, the output tree is exactly the reference     *)
(* output, whatever order the directory walk yielded, whatever stale or   *)
(* truncated files earlier runs or a kill inside write_contents left, and *)
(* however the domain dict was iterated (main, create_templates,          *)
(* write_contents, create_common_headers, generate_cmake_include).        *)
(***************************************************************************)
OutputMatchesReference ==
  pc = "done" =>
    /\ \A d \in ValidDocs : fs[CppOf(d)] = CppContent(d) /\ fs[HppOf(d)] = HppContent(d)
    /\ \A dom \in GeneratedDomains : fs[CommonHeaderPath(dom)] = ExpectedHeader(dom)
    /\ fs[ManifestPath] = ExpectedManifest

(***************************************************************************)
(* Idempotence (spec section 8): a run started after a run that completed *)
(* over the same documents reports no file "modified" (write_contents     *)
(* returns False for every output).                                       *)
(***************************************************************************)
RerunWritesNothing == lastOutcome = "done" => modified = {}

(***************************************************************************)
(* Two default_version documents in one domain are caught before any      *)
(* aggregation header is written, whatever the processing order (main,   *)
(* the UnuniqueParameter check).                                          *)
(***************************************************************************)
NoHeaderForConflictingDomain ==
  DefaultConflict => (emitted = {} /\ pc \notin {"headers", "done"})

(***************************************************************************)
(* A run is aborted only by a cross-document domain conflict; a malformed *)
(* document aborts its own generation, never the run (spec sections 5, 7).*)
(***************************************************************************)
RunFailsOnlyOnDomainConflict == pc = "failed" => DefaultConflict

=============================================================================
