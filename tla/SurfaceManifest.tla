--------------------------- MODULE SurfaceManifest ---------------------------
(***************************************************************************)
(* scripts/feature_impact_dive.py: it reads from the repository which      *)
(* services there are and which routes they serve, writes this with the    *)
(* policies of the writing routes to the service surface manifest, or      *)
(* compares the manifest in the repository with what it reads now.  The    *)
(* pipeline writes, compares with the commit and validates.  Developers    *)
(* edit the tree and the manifest.                                         *)
(***************************************************************************)
EXTENDS Integers, FiniteSets

CONSTANTS
    Names,          \* services
    BaselineNames,  \* those the script lists as the baseline
    Sources,        \* what src/ of a service may hold: sets of [suffix, routes]
    MaxEdits, MaxRuns,
    None

ReadMethods == {"GET", "HEAD", "OPTIONS"}
WriteMethods == {"POST", "PUT", "PATCH", "DELETE"}

SurfaceAssumption ==
    /\ BaselineNames \subseteq Names /\ MaxEdits \in Nat /\ MaxRuns \in Nat
    /\ \A files \in Sources : \A f \in files : \A r \in f.routes : r.method \in ReadMethods \cup WriteMethods
    /\ None \notin Sources /\ None # "required"

VARIABLES
    tree,           \* what the repository declares: compose, apps, services, docs
    manifest,       \* the file: a manifest, "absent" or "broken"
    verdict,        \* history: what the last validation said, of which tree and manifest
    edits, runs

vars == <<tree, manifest, verdict, edits, runs>>

Dir == {None} \cup Sources \* a directory without src/, or what its src/ holds
Broken == [kind |-> "broken"]
Absent == [kind |-> "absent"]

Init ==
    /\ tree = [compose |-> Names, docs |-> {}, apps |-> [n \in Names |-> None], services |-> [n \in Names |-> None]]
    /\ manifest = Absent /\ verdict = None /\ edits = 0 /\ runs = 0

-----------------------------------------------------------------------------
(* The routes the expressions find: those declared with a decorator, or on *)
(* app or router.                                                          *)
Endpoints(files) == {[method |-> r.method, path |-> r.path] : r \in UNION {{s \in f.routes : s.plain} : f \in files}}

Having(dirs) == {n \in Names : dirs[n] # None}

EndpointsOf(dirs, n) == IF n \in Having(dirs) THEN Endpoints(dirs[n]) ELSE {}

Language(files) ==
    IF \E f \in files : f.suffix = ".py" THEN "python"
    ELSE IF \E f \in files : f.suffix \in {".js", ".ts"} THEN "node" ELSE "unknown"

Policy(e) == [endpoint |-> e, auth |-> "required", tenant |-> "required", schema |-> "required"]

(* The record of one name, from the apps and the services together.        *)
RecordServices(n) == \* variant: the routes of the apps have no policies
    LET endpoints == EndpointsOf(tree.apps, n) \cup EndpointsOf(tree.services, n)
    IN [compose |-> n \in tree.compose, runtime |-> n \in Having(tree.services), app |-> n \in Having(tree.apps),
        docs |-> n \in tree.docs,
        language |-> IF n \in Having(tree.services) THEN Language(tree.services[n]) ELSE None,
        endpoints |-> endpoints,
        policies |-> {Policy(e) : e \in {x \in EndpointsOf(tree.services, n) : x.method \in WriteMethods}}]

Record(n) ==
    LET endpoints == EndpointsOf(tree.apps, n) \cup EndpointsOf(tree.services, n)
    IN [compose |-> n \in tree.compose, runtime |-> n \in Having(tree.services), app |-> n \in Having(tree.apps),
        docs |-> n \in tree.docs,
        language |-> IF n \in Having(tree.services) THEN Language(tree.services[n]) ELSE None,
        endpoints |-> endpoints,
        policies |-> {Policy(e) : e \in {x \in endpoints : x.method \in WriteMethods}}]

Surface ==
    [kind |-> "json",
     baseline |-> tree.compose \cap BaselineNames, extended |-> tree.compose \ BaselineNames,
     services |-> [n \in tree.compose \cup tree.docs \cup Having(tree.apps) \cup Having(tree.services) |-> Record(n)]]

-----------------------------------------------------------------------------
IsText(v) == v # None \* a value that is no string is None here

(* What a validation reports: the shape of the records, whether a policy   *)
(* is of a listed endpoint, and only when all are sound whether they are   *)
(* those of the tree.                                                      *)
Malformed(r) ==
    (IF \E p \in r.policies : ~IsText(p.auth) THEN {"shape"} ELSE {})
    \cup (IF \E p \in r.policies : p.endpoint \notin r.endpoints THEN {"integrity"} ELSE {})

ErrorsShape == \* variant: a manifest whose shape is sound passes
    CASE manifest.kind = "absent" -> {"not found"}
      [] manifest.kind = "broken" -> {"decode"}
      [] OTHER -> UNION {Malformed(manifest.services[n]) : n \in DOMAIN manifest.services}

Errors ==
    CASE manifest.kind = "absent" -> {"not found"}
      [] manifest.kind = "broken" -> {"decode"}
      [] OTHER ->
           LET found == UNION {Malformed(manifest.services[n]) : n \in DOMAIN manifest.services}
           IN IF found # {} THEN found ELSE IF manifest # Surface THEN {"drift"} ELSE {}

Validate ==
    /\ runs < MaxRuns /\ runs' = runs + 1
    /\ verdict' = [by |-> "validation", errors |-> Errors, tree |-> tree, manifest |-> manifest]
    /\ UNCHANGED <<tree, manifest, edits>>

(* The file is emptied before it is written: a run that is killed between  *)
(* leaves no JSON.                                                         *)
Write ==
    /\ runs < MaxRuns /\ runs' = runs + 1
    /\ \/ manifest' = Surface
       \/ manifest' = Broken
    /\ UNCHANGED <<tree, verdict, edits>>

(* The pipeline, on a copy of the commit: it writes and fails when the file*)
(* is another one, and then validates what it wrote.                       *)
Pipeline ==
    /\ runs < MaxRuns /\ runs' = runs + 1
    /\ verdict' = [by |-> "pipeline", errors |-> IF manifest = Surface THEN {} ELSE {"out of date"},
                   tree |-> tree, manifest |-> manifest]
    /\ UNCHANGED <<tree, manifest, edits>>

(* Developers.                                                             *)
EditTree ==
    /\ edits < MaxEdits /\ edits' = edits + 1
    /\ \E n \in Names :
         \/ tree' = [tree EXCEPT !.compose = IF n \in @ THEN @ \ {n} ELSE @ \cup {n}]
         \/ tree' = [tree EXCEPT !.docs = IF n \in @ THEN @ \ {n} ELSE @ \cup {n}]
         \/ \E d \in Dir : tree' = [tree EXCEPT !.apps[n] = d] \/ tree' = [tree EXCEPT !.services[n] = d]
    /\ UNCHANGED <<manifest, verdict, runs>>

EditManifest ==
    /\ edits < MaxEdits /\ edits' = edits + 1 /\ manifest.kind = "json"
    /\ \E n \in DOMAIN manifest.services :
         \/ \E p \in manifest.services[n].policies :
              \/ manifest' = [manifest EXCEPT !.services[n].policies = @ \ {p}]
              \/ \E v \in {"none", None} :
                   manifest' = [manifest EXCEPT !.services[n].policies = (@ \ {p}) \cup {[p EXCEPT !.auth = v]}]
              \/ manifest' = [manifest EXCEPT !.services[n].endpoints = @ \ {p.endpoint}]
         \/ manifest' = [manifest EXCEPT !.extended = @ \ {n}]
    /\ UNCHANGED <<tree, verdict, runs>>

Next == Validate \/ Write \/ Pipeline \/ EditTree \/ EditManifest

Spec == Init /\ [][Next]_vars

Endpoint == UNION {Endpoints(files) : files \in Sources}

(* What a manifest says of one name, and as a whole.                       *)
Listed ==
    [compose : BOOLEAN, runtime : BOOLEAN, app : BOOLEAN, docs : BOOLEAN,
     language : {"python", "node", "unknown", None}, endpoints : SUBSET Endpoint,
     policies : SUBSET [endpoint : Endpoint, auth : {"required", "none", None},
                        tenant : {"required"}, schema : {"required"}]]
IsManifest(m) ==
    /\ m \in [kind : {"json"}, baseline : SUBSET Names, extended : SUBSET Names, services : {m.services}]
    /\ m.services \in [DOMAIN m.services -> Listed] /\ DOMAIN m.services \subseteq Names

TypeOK ==
    /\ tree \in [compose : SUBSET Names, docs : SUBSET Names, apps : [Names -> Dir], services : [Names -> Dir]]
    /\ manifest \in {Broken, Absent} \/ IsManifest(manifest)
    /\ edits \in 0..MaxEdits /\ runs \in 0..MaxRuns
    /\ verdict # None => verdict.by \in {"validation", "pipeline"}

-----------------------------------------------------------------------------
Written(dirs, n) == {e \in EndpointsOf(dirs, n) : e.method \notin ReadMethods}

(* A manifest that was accepted protects every writing route the apps and  *)
(* the services of its tree declare plainly, each with all that is         *)
(* required, and sorts each service of the compose file.                   *)
AcceptedProtects ==
    verdict # None /\ verdict.errors = {} =>
        LET t == verdict.tree
            m == verdict.manifest
        IN /\ \A n \in Names : \A e \in Written(t.apps, n) \cup Written(t.services, n) :
                 /\ n \in DOMAIN m.services
                 /\ \E p \in m.services[n].policies : p.endpoint = e /\ {p.auth, p.tenant, p.schema} = {"required"}
           /\ m.baseline \cup m.extended = t.compose /\ m.baseline \cap m.extended = {}

(* The validation of a developer and the pipeline agree: neither accepts   *)
(* what the other refuses.                                                 *)
SameVerdict == Errors = {} <=> manifest = Surface

(* What a reader of the manifest may rely on.                              *)
SurfaceInv == AcceptedProtects /\ SameVerdict
=============================================================================
