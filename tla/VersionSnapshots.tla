-------------------------- MODULE VersionSnapshots --------------------------
(***************************************************************************)
(* The versions of prompt templates and skills and the rows they are taken *)
(* from (services/version_service.py, api/prompt_template.py,              *)
(* api/http/version.py).  The views are synchronous and run in threads; a  *)
(* step is one query, or one transaction: the database of the settings,    *)
(* SQLite, runs transactions one after the other or refuses them, and      *)
(* ignores select_for_update.                                              *)
(***************************************************************************)
EXTENDS Naturals, Sequences, FiniteSets

CONSTANTS Prompt,   \* prompt templates of one tenant
          Skill,    \* Skill rows, which no view of the backend edits
          Content,  \* what the versioned fields of a row can hold
          Request,  \* requests, each sent once
          None

Entity == Prompt \cup Skill

VARIABLES
    stored,    \* the PromptTemplate or Skill row, None when there is none
    versions,  \* VersionSnapshot rows, in the order of creation
    place,     \* where a request is
    op,        \* what it asks for
    held,      \* what it has read and not yet used
    crossed,   \* history: entities two requests worked on at once
    failed     \* history: entities a request on which was cut short

versionVars == <<stored, versions, place, op, held, crossed, failed>>

Row == [content : Content, active : BOOLEAN]

Version == [of : Entity, number : Nat \ {0}, data : Content,
            state : {"active", "inactive", "deleted"}]

Op == [kind : {"post", "put", "disable", "enable", "remove"}, of : Prompt]
      \cup [kind : {"label"}, of : Entity]
      \cup [kind : {"activate", "drop"}, of : DOMAIN versions]

TypeOK ==
    /\ stored \in [Entity -> Row \cup {None}]
    /\ versions \in Seq(Version)
    /\ place \in [Request -> {"idle", "begin", "save", "load", "commit", "write", "done"}]
    /\ op \in [Request -> Op \cup {None}]
    /\ held \in [Request -> Row \cup Content \cup {None}]
    /\ crossed \subseteq Entity /\ failed \subseteq Entity

Init ==
    /\ stored \in [Entity -> Row \cup {None}]
    /\ \A e \in Skill : stored[e] # None => stored[e].active
    /\ versions = <<>>
    /\ place = [r \in Request |-> "idle"]
    /\ op = [r \in Request |-> None]
    /\ held = [r \in Request |-> None]
    /\ crossed = {} /\ failed = {}

-----------------------------------------------------------------------------
VersionsOf(e) == {i \in DOMAIN versions : versions[i].of = e /\ versions[i].state # "deleted"}

Subject(o) == IF o.of \in Entity THEN o.of ELSE versions[o.of].of

Under(r) == place[r] \notin {"idle", "done"}


Hold(r, value) == held' = [held EXCEPT ![r] = value]

Serialized(e) == stored[e].content

(* Requests *)

FirstPlace(kind) == IF kind = "label" THEN "load" ELSE "begin"

Ask(r) ==
    /\ place[r] = "idle"
    /\ \E o \in Op :
         /\ o.kind = "post" => stored[o.of] = None
         /\ op' = [op EXCEPT ![r] = o]
         /\ place' = [place EXCEPT ![r] = FirstPlace(o.kind)]
         /\ crossed' = crossed \cup
                {Subject(o) : q \in {p \in Request : Under(p) /\ Subject(op[p]) = Subject(o)}}
    /\ UNCHANGED <<stored, versions, held, failed>>

\* A request that is over asks for nothing any more.
Goto(r, p) ==
    /\ place' = [place EXCEPT ![r] = p]
    /\ op' = IF p = "done" THEN [op EXCEPT ![r] = None] ELSE op

(* PromptTemplate views *)

\* POST: objects.create; the key is new, so nobody else holds it.
PostTemplate(r) ==
    /\ place[r] = "begin" /\ op[r].kind = "post"
    /\ \E new \in Row : stored' = [stored EXCEPT ![op[r].of] = new]
    /\ Goto(r, "load")
    /\ UNCHANGED <<versions, held, crossed, failed>>

\* PUT, PATCH and disable read the row ...
ReadTemplate(r) ==
    /\ place[r] = "begin" /\ op[r].kind \in {"put", "disable"}
    /\ Hold(r, stored[op[r].of])
    /\ Goto(r, IF stored[op[r].of] = None THEN "done" ELSE "save")
    /\ UNCHANGED <<stored, versions, crossed, failed>>

\* ... and save all of it: what the request leaves out is written back as it
\* was read, and a row deleted in between is inserted again.
SaveTemplate(r) ==
    /\ place[r] = "save"
    /\ \E new \in IF op[r].kind = "put" THEN Row ELSE {[held[r] EXCEPT !.active = FALSE]} :
         stored' = [stored EXCEPT ![op[r].of] = new]
    /\ Goto(r, IF op[r].kind = "put" THEN "load" ELSE "done")
    /\ Hold(r, None)
    /\ UNCHANGED <<versions, crossed, failed>>

\* One transaction: the others are disabled, the target enabled.
EnableTemplate(r) ==
    /\ place[r] = "begin" /\ op[r].kind = "enable"
    /\ stored' = IF stored[op[r].of] = None THEN stored
              ELSE [e \in Entity |->
                      IF e \in Skill \/ stored[e] = None THEN stored[e]
                      ELSE [stored[e] EXCEPT !.active = (e = op[r].of)]]
    /\ Goto(r, "done")
    /\ UNCHANGED <<versions, held, crossed, failed>>

\* DELETE: the versions stay; nothing ties them to the row.
RemoveTemplate(r) ==
    /\ place[r] = "begin" /\ op[r].kind = "remove"
    /\ stored' = [stored EXCEPT ![op[r].of] = None]
    /\ Goto(r, "done")
    /\ UNCHANGED <<versions, held, crossed, failed>>

(* VersionService *)

\* create_snapshot reads the entity before its transaction begins.
LoadEntity(r) ==
    /\ place[r] = "load"
    /\ IF stored[op[r].of] = None
       THEN Goto(r, "done") /\ UNCHANGED held
       ELSE Goto(r, "commit") /\ Hold(r, Serialized(op[r].of))
    /\ UNCHANGED <<stored, versions, crossed, failed>>

\* Mutant of NextNumber: the versions are counted, from zero.
NextNumberFromZero(e) == Cardinality(VersionsOf(e))

NextNumber(e) ==
    CHOOSE n \in 1 .. Len(versions) + 1 :
        /\ \A i \in VersionsOf(e) : versions[i].number < n
        /\ n = 1 \/ \E i \in VersionsOf(e) : versions[i].number = n - 1

\* Mutant of Deactivated: the version that was active stays so.
DeactivatedNot(e) == versions

Deactivated(e) ==
    [i \in DOMAIN versions |->
        IF i \in VersionsOf(e) THEN [versions[i] EXCEPT !.state = "inactive"] ELSE versions[i]]

\* The transaction of create_snapshot.
CommitVersion(r) ==
    LET e == op[r].of IN
    /\ place[r] = "commit"
    /\ versions' = Append(Deactivated(e),
                          [of |-> e, number |-> NextNumber(e),
                           data |-> held[r], state |-> "active"])
    /\ Goto(r, "done") /\ Hold(r, None)
    /\ UNCHANGED <<stored, crossed, failed>>

\* get_version of activate_version, and the check of delete_version, which
\* refuses the active version; both are outside a transaction.
ReadVersion(r) ==
    /\ place[r] = "begin" /\ op[r].kind \in {"activate", "drop"}
    /\ LET v == versions[op[r].of] IN
       Goto(r, IF v.state = "deleted" \/ (op[r].kind = "drop" /\ v.state = "active")
               THEN "done" ELSE "write")
    /\ UNCHANGED <<stored, versions, held, crossed, failed>>

Restored(v) ==
    IF stored[v.of] = None THEN stored ELSE [stored EXCEPT ![v.of].content = v.data]

\* The transaction of activate_version.  Saving a deleted version raises, and
\* restoring a skill calls a refresh_skill that SkillService does not have:
\* both roll everything back.
ActivateVersion(r) ==
    LET v == versions[op[r].of] IN
    /\ place[r] = "write" /\ op[r].kind = "activate"
    /\ IF v.state = "deleted" \/ (v.of \in Skill /\ stored[v.of] # None)
       THEN UNCHANGED <<stored, versions>>
       ELSE /\ versions' = [Deactivated(v.of) EXCEPT ![op[r].of].state = "active"]
            /\ stored' = Restored(v)
    /\ Goto(r, "done")
    /\ UNCHANGED <<held, crossed, failed>>

DeleteVersion(r) ==
    /\ place[r] = "write" /\ op[r].kind = "drop"
    /\ versions' = [versions EXCEPT ![op[r].of].state = "deleted"]
    /\ Goto(r, "done")
    /\ UNCHANGED <<stored, held, crossed, failed>>

\* A query or transaction is refused ("database is locked"), or the worker
\* dies: what was committed before stays.
Fail(r) ==
    /\ Under(r)
    /\ Goto(r, "done") /\ Hold(r, None)
    /\ failed' = failed \cup {Subject(op[r])}
    /\ UNCHANGED <<stored, versions, crossed>>

Next ==
    \E r \in Request :
        \/ Ask(r)
        \/ PostTemplate(r) \/ ReadTemplate(r) \/ SaveTemplate(r)
        \/ EnableTemplate(r) \/ RemoveTemplate(r)
        \/ LoadEntity(r) \/ CommitVersion(r)
        \/ ReadVersion(r) \/ ActivateVersion(r) \/ DeleteVersion(r)
        \/ Fail(r)

Spec == Init /\ [][Next]_versionVars

-----------------------------------------------------------------------------
NumbersUnique ==
    \A e \in Entity : \A i, j \in VersionsOf(e) :
        versions[i].number = versions[j].number => i = j

ActiveOf(e) == {i \in VersionsOf(e) : versions[i].state = "active"}

AtMostOneActive == \A e \in Entity : Cardinality(ActiveOf(e)) <= 1

Settled(e) ==
    /\ e \notin crossed \cup failed
    /\ \A r \in Request : Under(r) => Subject(op[r]) # e

\* The books of the version service (version_service.py:74-101, 183-194,
\* 323-328): the live versions of an entity have different numbers and at most
\* one is active, however requests interleave and fail; and once an entity
\* with versions has only seen one request at a time, none cut short, one of
\* them is active and holds what the row holds.  Requests that cross lose the
\* second half: a version read before another save is committed after it, and
\* the version activated between the check and the delete is deleted.
VersionsSound ==
    /\ NumbersUnique
    /\ AtMostOneActive
    /\ \A e \in Entity :
         Settled(e) /\ stored[e] # None /\ VersionsOf(e) # {} =>
             \E i \in ActiveOf(e) : versions[i].data = stored[e].content
=============================================================================
