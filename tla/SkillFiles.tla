----------------------------- MODULE SkillFiles -----------------------------
(***************************************************************************)
(* The skills of one tenant: directories with a SKILL.md, and the bucket   *)
(* SkillRegistry keeps of them (api/http/skill.py,                         *)
(* integrations/skill/{base,filesystem_skill_loader}.py,                   *)
(* services/skill_service.py).  The views do not await, so a request is    *)
(* one step; what can come between are failures of the file system.        *)
(***************************************************************************)
CONSTANTS Name,   \* names of skills and of their directories
          Lower   \* Lower[n] is n in lower case

VARIABLES
    files,    \* what is in the directory of each name
    skills,   \* SkillRegistry._skills of the tenant: the directory of each key
    drifted   \* history: how the registry has come to differ from the files

skillVars == <<files, skills, drifted>>

\* A SKILL.md with its front matter or "broken", without one; a directory that
\* is "empty"; no directory, "none".
SkillFile == [kind : {"skill"}, name : Name, active : BOOLEAN]
Other(kind) == [kind |-> kind]
AnyFile   == SkillFile \cup {Other(kind) : kind \in {"broken", "empty", "none"}}

New(n, active) == [kind |-> "skill", name |-> n, active |-> active]

Keys == {Lower[n] : n \in Name}

TypeOK ==
    /\ files \in [Name -> AnyFile]
    /\ skills \in [Keys -> Name \cup {"none"}]
    /\ drifted \subseteq {"failed", "alias"}

-----------------------------------------------------------------------------
Readable(d) == files[d].kind = "skill"

IsDir(d) == files[d].kind # "none"

Registers(file, key) == file.kind = "skill" /\ Lower[file.name] = key

\* What scan_skills may register, active or not.  Two names that differ only in
\* case share a key; the one the directory lists last has it.
Scan(now) ==
    {s \in [Keys -> Name \cup {"none"}] :
        \A k \in Keys :
            LET dirs == {d \in Name : Registers(now[d], k)}
            IN IF dirs = {} THEN s[k] = "none" ELSE s[k] \in dirs}

\* The application starts: load_all_tenant_skills.
Init ==
    /\ \E dirs \in SUBSET Name :
         files = [d \in Name |-> IF d \in dirs THEN New(d, TRUE) ELSE Other("none")]
    /\ skills \in Scan(files)
    /\ drifted = {}

\* _re_register_skills empties the bucket first.
ReRegister ==
    /\ skills' \in Scan(files')
    /\ drifted' = {}

\* The request ends with an error before it comes to the registry.
Unregistered ==
    /\ drifted' = IF files' = files THEN drifted ELSE drifted \cup {"failed"}
    /\ UNCHANGED skills

-----------------------------------------------------------------------------
Put(d, file) == files' = [files EXCEPT ![d] = file]

\* POST, and an upload whose SKILL.md names the directory.
Create(d) ==
    /\ ~IsDir(d)
    /\ \E b \in BOOLEAN : Put(d, New(d, b))
    /\ ReRegister

\* The directory stays when its SKILL.md cannot be written, and no other POST
\* or upload of the name succeeds; a failed upload takes it back.
CreateFails(d) ==
    /\ ~IsDir(d)
    /\ \E left \in {"none", "empty", "broken"} : Put(d, Other(left))
    /\ Unregistered

\* PUT: any name is taken, and the directory keeps the one it has.
Update(d) ==
    /\ Readable(d)
    /\ \E file \in SkillFile : Put(d, file)
    /\ ReRegister

\* enable and disable set one field of the front matter.
SetActive(d) ==
    /\ Readable(d)
    /\ \E b \in BOOLEAN : Put(d, [files[d] EXCEPT !.active = b])
    /\ ReRegister

\* Opening the file has emptied it before the write fails.
WriteFails(d) ==
    /\ Readable(d)
    /\ Put(d, Other("broken"))
    /\ Unregistered

\* Nobody else's file is registered under the key of the directory.
OwnsKey(d) ==
    /\ Readable(d) => Registers(files[d], Lower[d])
    /\ \A e \in Name \ {d} : ~Registers(files[e], Lower[d])

\* Mutant of Delete: the key is looked for as the directory is written.
DeleteAsWritten(d) ==
    /\ IsDir(d)
    /\ Put(d, Other("none"))
    /\ skills' = [k \in Keys |-> IF k = d THEN "none" ELSE skills[k]]
    /\ drifted' = IF OwnsKey(d) THEN drifted ELSE drifted \cup {"alias"}

\* DELETE takes the directory's key out of the bucket, whatever name the file
\* was registered under and whosever the key is.
Delete(d) ==
    /\ IsDir(d)
    /\ Put(d, Other("none"))
    /\ skills' = [skills EXCEPT ![Lower[d]] = "none"]
    /\ drifted' = IF OwnsKey(d) THEN drifted ELSE drifted \cup {"alias"}

\* rmtree gives up; the SKILL.md may be gone.
DeleteFails(d) ==
    /\ IsDir(d)
    /\ Put(d, Other("empty")) \/ UNCHANGED files
    /\ Unregistered

Refresh(d) == IsDir(d) /\ UNCHANGED files /\ ReRegister

\* A new process scans into an empty bucket.
Restart == UNCHANGED files /\ ReRegister

Next ==
    \/ \E d \in Name :
         \/ Create(d) \/ CreateFails(d) \/ Update(d) \/ SetActive(d) \/ WriteFails(d)
         \/ Delete(d) \/ DeleteFails(d) \/ Refresh(d)
    \/ Restart

Spec == Init /\ [][Next]_skillVars

-----------------------------------------------------------------------------
\* The registry is what a scan of the files would register, after any sequence
\* of requests and whatever names PUT has put into the files, unless the file
\* system failed a request or one deleted a directory whose key was not its
\* own alone - and then until the next request that scans (skill.py:185-192,
\* 364-388).
SkillsFollowFiles == drifted = {} => skills \in Scan(files)
=============================================================================
