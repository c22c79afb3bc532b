------------------------- MODULE TenantConfigProofs -------------------------
(***************************************************************************)
(* Every area of TenantConfig, for every value of the constants: the types *)
(* of all variables; the hooks and the rules that deny a tool; the         *)
(* versions of prompts and skills; what a session snapshot has frozen; the *)
(* models; the catalogue of tools; the skills of the registry.  An area    *)
(* has a section, with its inductive invariant (HookInv, VersionInv,       *)
(* SnapshotInv, ModelInv, CatalogInv, SkillInv), one lemma for each group  *)
(* of actions that must keep it, and the theorems it gives.  TLC has       *)
(* checked each invariant on the instances of MCTenantConfig first.        *)
(***************************************************************************)
EXTENDS TenantConfig, FiniteSetTheorems, WellFoundedInduction, TLAPS

-----------------------------------------------------------------------------
(* Sets of any kind.                                                       *)

\* A set in which any two are the same.
LEMMA OneAtMost ==
    ASSUME NEW T, \A x, y \in T : x = y
    PROVE  Cardinality(T) <= 1
  <1>1. CASE T = {}
    BY <1>1, FS_EmptySet
  <1>2. ASSUME NEW x \in T PROVE Cardinality(T) <= 1
    <2>1. T = {x}
      OBVIOUS
    <2>2. Cardinality(T) = 1
      BY <2>1, FS_Singleton, Zenon
    <2>3. QED
      BY <2>2
  <1>3. QED
    BY <1>1, <1>2

\* A set of numbers that is not empty has a least one.
LEMMA LeastNat ==
    ASSUME NEW T \in SUBSET Nat, T # {}
    PROVE  \E x \in T : \A y \in T : x <= y
  <1>1. \A x, y \in Nat : y < x => <<y, x>> \in OpToRel(<, Nat)
    BY DEF OpToRel
  <1>2. \E R : IsWellFoundedOn(R, Nat) /\ \A x, y \in Nat : y < x => <<y, x>> \in R
    BY <1>1, NatLessThanWellFounded, Zenon
  <1>3. PICK R : IsWellFoundedOn(R, Nat) /\ \A x, y \in Nat : y < x => <<y, x>> \in R
    BY <1>2
  <1>4. PICK x \in T : \A y \in T : ~ (<<y, x>> \in R)
    BY <1>3, WFMin, Zenon
  <1>5. \A y \in T : ~ (y < x)
    BY <1>3, <1>4, Zenon
  <1>6. QED
    BY <1>4, <1>5

\* A set of numbers with zero and all successors has them all.
LEMMA SetInduction ==
    ASSUME NEW T \in SUBSET Nat, 0 \in T, \A n \in T : n + 1 \in T
    PROVE  T = Nat
  <1>1. CASE Nat \ T # {}
    <2>1. PICK x \in Nat \ T : \A y \in Nat \ T : x <= y
      BY <1>1, LeastNat
    <2>2. x - 1 \in Nat /\ x - 1 \in T
      BY <2>1
    <2>3. QED
      BY <2>1, <2>2
  <1>2. QED
    BY <1>1

\* A sequence with one more element.
LEMMA AppendIs ==
    ASSUME NEW Q, NEW q \in Seq(Q), NEW x \in Q
    PROVE  /\ Append(q, x) \in Seq(Q) /\ Len(Append(q, x)) = Len(q) + 1
           /\ DOMAIN Append(q, x) = 1 .. Len(q) + 1
           /\ \A i \in DOMAIN q : Append(q, x)[i] = q[i]
           /\ Append(q, x)[Len(q) + 1] = x
  OBVIOUS

-----------------------------------------------------------------------------
(* Files of skills.                                                        *)

SkillInv == F!TypeOK /\ SkillsFollowFiles

LEMMA SkillTypeStep == ASSUME F!TypeOK, [F!Next]_(F!skillVars) PROVE F!TypeOK'
  <1> USE DEF F!TypeOK
  <1>1. Lower \in [Name -> Name]
    BY ConfigAssumption
  <1>2. /\ \A n \in Name, b \in BOOLEAN : F!New(n, b) \in F!AnyFile
        /\ \A k \in {"broken", "empty", "none"} : F!Other(k) \in F!AnyFile
        /\ F!SkillFile \subseteq F!AnyFile
    BY DEF F!New, F!Other, F!AnyFile, F!SkillFile
  <1>3. \A d \in Name : F!Readable(d) => files[d] \in F!SkillFile
    BY DEF F!Readable, F!AnyFile, F!Other
  <1>4. \A d \in Name, f \in F!AnyFile : F!Put(d, f) => files' \in [Name -> F!AnyFile]
    BY DEF F!Put
  <1>5. /\ F!ReRegister => skills' \in [F!Keys -> Name \cup {"none"}]
                            /\ drifted' \subseteq {"failed", "alias"}
        /\ F!Unregistered => skills' \in [F!Keys -> Name \cup {"none"}]
                            /\ drifted' \subseteq {"failed", "alias"}
    BY DEF F!ReRegister, F!Unregistered, F!Scan
  <1>6. ASSUME NEW d \in Name, F!Create(d) PROVE F!TypeOK'
    BY <1>2, <1>4, <1>5, <1>6 DEF F!Create
  <1>7. ASSUME NEW d \in Name, F!CreateFails(d) PROVE F!TypeOK'
    BY <1>2, <1>4, <1>5, <1>7 DEF F!CreateFails
  <1>8. ASSUME NEW d \in Name, F!Update(d) PROVE F!TypeOK'
    BY <1>2, <1>4, <1>5, <1>8 DEF F!Update
  <1>9. ASSUME NEW d \in Name, F!SetActive(d) PROVE F!TypeOK'
    <2>1. \A b \in BOOLEAN : [files[d] EXCEPT !.active = b] \in F!SkillFile
      BY <1>3, <1>9 DEF F!SetActive, F!SkillFile
    <2>2. QED
      BY <1>2, <1>4, <1>5, <1>9, <2>1 DEF F!SetActive
  <1>10. ASSUME NEW d \in Name, F!WriteFails(d) PROVE F!TypeOK'
    BY <1>2, <1>4, <1>5, <1>10 DEF F!WriteFails
  <1>11. ASSUME NEW d \in Name, F!Delete(d) PROVE F!TypeOK'
    BY <1>1, <1>2, <1>4, <1>11 DEF F!Delete
  <1>12. ASSUME NEW d \in Name, F!DeleteFails(d) PROVE F!TypeOK'
    BY <1>2, <1>4, <1>5, <1>12 DEF F!DeleteFails
  <1>13. ASSUME NEW d \in Name, F!Refresh(d) PROVE F!TypeOK'
    BY <1>5, <1>13 DEF F!Refresh
  <1>14. CASE F!Restart
    BY <1>5, <1>14 DEF F!Restart
  <1>15. CASE UNCHANGED F!skillVars
    BY <1>15 DEF F!skillVars
  <1>16. QED
    BY <1>6, <1>7, <1>8, <1>9, <1>10, <1>11, <1>12, <1>13, <1>14, <1>15 DEF F!Next

\* A directory that owns its key goes, and nothing else is registered under it:
\* the bucket without the key is what a scan of the rest may register.
LEMMA DeleteScans ==
    ASSUME F!TypeOK, NEW d \in Name, F!Delete(d), F!OwnsKey(d), skills \in F!Scan(files)
    PROVE  skills' \in F!Scan(files')
  <1>1. /\ files' = [files EXCEPT ![d] = F!Other("none")]
        /\ skills' = [skills EXCEPT ![Lower[d]] = "none"]
        /\ files \in [Name -> F!AnyFile] /\ skills \in [F!Keys -> Name \cup {"none"}]
    BY DEF F!Delete, F!Put, F!TypeOK
  <1>2. \A k \in F!Keys : ~F!Registers(files'[d], k)
    BY <1>1 DEF F!Registers, F!Other
  <1>3. \A k \in F!Keys \ {Lower[d]} : ~F!Registers(files[d], k)
    BY DEF F!OwnsKey, F!Readable, F!Registers
  <1>4. \A k \in F!Keys, e \in Name \ {d} :
          F!Registers(files'[e], k) <=> F!Registers(files[e], k)
    BY <1>1
  <1>5. {e \in Name : F!Registers(files'[e], Lower[d])} = {}
    BY <1>2, <1>4 DEF F!OwnsKey, F!Keys
  <1>6. \A k \in F!Keys \ {Lower[d]} :
          {e \in Name : F!Registers(files'[e], k)} = {e \in Name : F!Registers(files[e], k)}
    BY <1>2, <1>3, <1>4
  <1>7. skills' \in [F!Keys -> Name \cup {"none"}]
    BY <1>1
  <1>8. QED
    BY <1>1, <1>5, <1>6, <1>7 DEF F!Scan

LEMMA SkillStep == ASSUME SkillInv, [F!Next]_(F!skillVars) PROVE SkillInv'
  <1>1. F!TypeOK'
    BY SkillTypeStep DEF SkillInv
  <1>2. F!ReRegister => SkillsFollowFiles'
    BY DEF F!ReRegister, SkillsFollowFiles, F!SkillsFollowFiles
  <1>3. F!Unregistered => SkillsFollowFiles'
    BY DEF F!Unregistered, SkillInv, SkillsFollowFiles, F!SkillsFollowFiles
  <1>4. ASSUME NEW d \in Name, F!Delete(d) PROVE SkillsFollowFiles'
    BY <1>4, DeleteScans DEF F!Delete, SkillInv, SkillsFollowFiles, F!SkillsFollowFiles
  <1>5. CASE UNCHANGED F!skillVars
    BY <1>1, <1>5 DEF F!skillVars, SkillInv, SkillsFollowFiles, F!SkillsFollowFiles
  <1>6. ASSUME NEW d \in Name,
               \/ F!Create(d) \/ F!CreateFails(d) \/ F!Update(d) \/ F!SetActive(d)
               \/ F!WriteFails(d) \/ F!DeleteFails(d) \/ F!Refresh(d)
        PROVE  F!ReRegister \/ F!Unregistered
    BY <1>6 DEF F!Create, F!CreateFails, F!Update, F!SetActive, F!WriteFails,
                F!DeleteFails, F!Refresh
  <1>7. F!Restart => F!ReRegister
    BY DEF F!Restart
  <1>8. F!Next => F!ReRegister \/ F!Unregistered \/ \E d \in Name : F!Delete(d)
    BY <1>6, <1>7, Zenon DEF F!Next
  <1>9. QED
    BY <1>1, <1>2, <1>3, <1>4, <1>5, <1>8 DEF SkillInv

LEMMA SkillsHold == ConfigSpec => []SkillInv
  <1>1. ConfigInit => SkillInv
    <2>1. F!Init => F!TypeOK
      BY DEF F!Init, F!TypeOK, F!Scan, F!AnyFile, F!SkillFile, F!New, F!Other
    <2>2. F!Init => SkillsFollowFiles
      BY DEF F!Init, SkillsFollowFiles, F!SkillsFollowFiles
    <2>3. QED
      BY <2>1, <2>2 DEF ConfigInit, SkillInv
  <1>2. [ConfigNext]_configVars => [F!Next]_(F!skillVars)
    BY DEF ConfigNext, configVars, skillVars, F!skillVars
  <1>3. SkillInv /\ [ConfigNext]_configVars => SkillInv'
    BY <1>2, SkillStep
  <1>4. QED
    BY <1>1, <1>3, PTL DEF ConfigSpec

\* api/http/skill.py: unless a request failed half-way, or deleted a directory
\* whose key was not its own alone, the registry holds what the files say.
THEOREM RegistryFollowsFiles == ConfigSpec => []SkillsFollowFiles
  <1>1. SkillInv => SkillsFollowFiles
    BY DEF SkillInv
  <1>2. QED
    BY <1>1, SkillsHold, PTL

-----------------------------------------------------------------------------
(* Session snapshots.                                                      *)

\* What a snapshot holds was there while it was captured.
Sound(data) ==
    /\ data \in S!Data
    /\ data.provider # "unread" /\ data.template # "unread"
    /\ data.template \in during["template"]
    /\ \A i \in S!Item : data.items[i] \in during[i]

\* What a capture has read so far was there too, and the rows are there now; so
\* is what has not changed in the registries.
Gathered ==
    /\ capture \in S!Data
    /\ snapshot = None => /\ template \in during["template"]
                          /\ \A i \in S!Item : row[i] \in during[i]
    /\ \A i \in S!Item \ reloaded : live[i] \in during[i]
    /\ capture.template # "unread" => capture.template \in during["template"]
    /\ capture.tools = "read" \/ capture.skills = "read" => S!FirstGathered
    /\ capture.tools = "read" => \A i \in Tool : capture.items[i] \in during[i]
    /\ capture.skills = "read" => \A i \in Skill : capture.items[i] \in during[i]
    /\ snapshot # None => Sound(snapshot.data)

\* The agent has the prompt and the lists that are frozen, or, of what goes by
\* their names in the registries (use_snapshot_config) and of all the tools there
\* (auto_tools), what has not changed.
Made(u) ==
    /\ agent[u].own = S!Lists(frozen[u])
    /\ frozen[u].template # None => agent[u].template = frozen[u].template
    /\ \A list \in S!Lists(frozen[u]) : \A i \in list :
         /\ agent[u].items[i] \in during[i]
            \/ (i \in reloaded /\ (strict[u] \/ S!SentLive(u, list)))
         /\ S!SentLive(u, list)
            \/ IF strict[u] THEN agent[u].items[i] # None => frozen[u].items[i] # None
                            ELSE agent[u].items[i] = frozen[u].items[i]

Restored(u) ==
    /\ stage[u] # "idle" => snapshot \in [data : S!Data, active : BOOLEAN] /\ Sound(snapshot.data)
    /\ stage[u] \in {"llm", "build", "prompt"} => Sound(frozen[u])
    /\ stage[u] = "llm" => frozen[u].provider # None
    /\ stage[u] = "prompt" => frozen[u].template = None /\ (strict[u] \/ Made(u))
    /\ stage[u] = "active" => frozen[u] = None
    /\ stage[u] \in {"load", "answered"} => frozen[u] = None \/ (Sound(frozen[u]) /\ Made(u))

SnapshotInv == S!TypeOK /\ Gathered /\ \A u \in User : Restored(u)

LEMMA SnapshotInit == ASSUME S!Init PROVE SnapshotInv
  <1>1. template \in during["template"] /\ \A i \in S!Item : row[i] \in during[i]
    BY ConfigAssumption DEF S!Init, S!Item
  <1>2. S!Unread \in S!Data
    BY DEF S!Unread, S!Data, S!Maybe
  <1>3. S!NoAgent \in S!Agent
    BY DEF S!NoAgent, S!Agent, S!Maybe
  <1>4. during \in [S!Item \cup {"template"} -> SUBSET S!Maybe(Value)]
    BY DEF S!Init, S!Maybe
  <1>5. S!TypeOK
    BY <1>2, <1>3, <1>4, ConfigAssumption DEF S!Init, S!TypeOK, S!Maybe
  <1>6. Gathered
    BY <1>1, <1>2 DEF S!Init, S!Unread, Gathered, S!Item
  <1>7. \A u \in User : Restored(u)
    BY DEF S!Init, Restored
  <1>8. QED
    BY <1>5, <1>6, <1>7 DEF SnapshotInv

\* What was there goes on having been there.
LEMMA SoundStays ==
    ASSUME NEW data, Sound(data), \A x \in S!Item \cup {"template"} : during[x] \subseteq during'[x]
    PROVE  /\ data.provider # "unread" /\ data.template # "unread"
           /\ data.template \in during'["template"]
           /\ \A i \in S!Item : data.items[i] \in during'[i]
  BY DEF Sound

\* A step that leaves the requests and the snapshot alone leaves alone what was
\* made of it.
LEMMA RestoredStays ==
    ASSUME SnapshotInv, UNCHANGED <<snapshot, stage, strict, frozen, agent>>,
           reloaded \subseteq reloaded',
           \A x \in S!Item \cup {"template"} : during[x] \subseteq during'[x]
    PROVE  /\ \A u \in User : Restored(u)'
           /\ snapshot # None => Sound(snapshot.data)'
  <1>1. \A data : Sound(data) => Sound(data)'
    BY SoundStays DEF Sound
  <1>2. \A u \in User : Made(u) => Made(u)'
    BY DEF Made, S!SentLive, S!Lists, S!Item
  <1>3. QED
    BY <1>1, <1>2 DEF SnapshotInv, Restored, Gathered

\* Edits; what they put into a row or the template while the capture runs was
\* there while it ran.
LEMMA EditStep ==
    ASSUME SnapshotInv,
           \/ \E i \in S!Item : S!EditRow(i) \/ S!EditLive(i)
           \/ S!EditTemplate \/ \E p \in Provider : S!EditProvider(p)
    PROVE  SnapshotInv'
  <1> USE DEF S!Edit, S!configVars, S!requestVars
  <1>1. S!TypeOK
    BY DEF SnapshotInv
  <1>2. /\ MaxEdits \in Nat /\ "template" \notin S!Item
        /\ edits \in Nat
    BY <1>1, ConfigAssumption DEF S!Item, S!TypeOK
  <1>3. /\ edits' \in 0 .. MaxEdits
        /\ UNCHANGED <<capture, snapshot, stage, strict, frozen, agent>>
    BY <1>2 DEF S!EditRow, S!EditLive, S!EditTemplate, S!EditProvider
  <1>4. \A x \in S!Item \cup {"template"}, v \in S!Maybe(Value) :
          S!Was(x, v) => /\ during' \in [S!Item \cup {"template"} -> SUBSET S!Maybe(Value)]
                         /\ \A y \in S!Item \cup {"template"} : during[y] \subseteq during'[y]
                         /\ snapshot = None => v \in during'[x]
    BY <1>1 DEF S!Was, S!TypeOK
  <1> DEFINE Kept ==
        /\ during' \in [S!Item \cup {"template"} -> SUBSET S!Maybe(Value)]
        /\ \A y \in S!Item \cup {"template"} : during[y] \subseteq during'[y]
        /\ snapshot = None => /\ template' \in during'["template"]
                              /\ \A i \in S!Item : row'[i] \in during'[i]
        /\ row' \in [S!Item -> S!Maybe(Value)] /\ live' \in [S!Item -> S!Maybe(Value)]
        /\ template' \in S!Maybe(Value)
        /\ model' \in [Provider -> Value] /\ default' \in S!Maybe(Provider)
        /\ reloaded \subseteq reloaded' /\ reloaded' \subseteq S!Item
        /\ \A i \in S!Item \ reloaded' : live'[i] \in during'[i]
  <1>5. /\ snapshot = None => /\ template \in during["template"]
                              /\ \A i \in S!Item : row[i] \in during[i]
        /\ during \in [S!Item \cup {"template"} -> SUBSET S!Maybe(Value)]
        /\ row \in [S!Item -> S!Maybe(Value)] /\ live \in [S!Item -> S!Maybe(Value)]
        /\ template \in S!Maybe(Value)
        /\ model \in [Provider -> Value] /\ default \in S!Maybe(Provider)
        /\ reloaded \subseteq S!Item
        /\ \A i \in S!Item \ reloaded : live[i] \in during[i]
    BY <1>1 DEF SnapshotInv, Gathered, S!TypeOK
  <1>6. Kept
    <2>1. ASSUME NEW i \in S!Item, S!EditRow(i) PROVE Kept
      BY <1>4, <1>5, <2>1 DEF S!EditRow
    <2>2. ASSUME NEW i \in S!Item, S!EditLive(i) PROVE Kept
      BY <1>5, <2>2 DEF S!EditLive
    <2>3. CASE S!EditTemplate
      BY <1>4, <1>5, <2>3 DEF S!EditTemplate
    <2>4. ASSUME NEW p \in Provider, S!EditProvider(p) PROVE Kept
      BY <1>5, <2>4 DEF S!EditProvider, S!Maybe
    <2>5. QED
      BY <2>1, <2>2, <2>3, <2>4
  <1>7. /\ \A u \in User : Restored(u)'
        /\ snapshot # None => Sound(snapshot.data)'
    BY <1>3, <1>6, RestoredStays
  <1>8. S!TypeOK'
    BY <1>1, <1>3, <1>6 DEF S!TypeOK
  <1>9. Gathered'
    BY <1>3, <1>6, <1>7, ConfigAssumption DEF SnapshotInv, Gathered, S!Item, S!FirstGathered
  <1>10. QED
    BY <1>7, <1>8, <1>9 DEF SnapshotInv

-----------------------------------------------------------------------------
LEMMA CaptureStep ==
    ASSUME SnapshotInv,
           \/ S!CaptureLlm \/ S!CapturePrompt \/ S!CaptureTools \/ S!CaptureSkills
           \/ S!CreateSnapshot \/ S!DeleteSnapshot
    PROVE  SnapshotInv'
  <1> USE DEF S!configVars, S!requestVars
  <1>1. S!TypeOK /\ Gathered
    BY DEF SnapshotInv
  <1>2. UNCHANGED <<row, live, template, model, default, edits, reloaded, during, stage,
                    strict, frozen, agent>>
    BY DEF S!CaptureLlm, S!CapturePrompt, S!CaptureTools, S!CaptureSkills, S!Capturing,
           S!CreateSnapshot, S!DeleteSnapshot
  <1>3. UNCHANGED snapshot => /\ \A u \in User : Restored(u)'
                              /\ snapshot # None => Sound(snapshot.data)'
    BY <1>2, RestoredStays
  <1>4. ASSUME S!CaptureLlm \/ S!CapturePrompt \/ S!CaptureTools \/ S!CaptureSkills
        PROVE  SnapshotInv'
    <2>1. snapshot = None /\ UNCHANGED snapshot
      BY <1>4 DEF S!CaptureLlm, S!CapturePrompt, S!CaptureTools, S!CaptureSkills, S!Capturing
    <2>2. /\ template \in during["template"] /\ template \in S!Maybe(Value)
          /\ default \in S!Maybe(Provider)
          /\ \A i \in S!Item : row[i] \in during[i]
          /\ row \in [S!Item -> S!Maybe(Value)]
      BY <1>1, <2>1 DEF Gathered, S!TypeOK
    <2>3. /\ capture \in S!Data /\ capture' \in S!Data
          /\ capture'.provider = capture.provider \/ S!CaptureLlm
          /\ capture'.template = capture.template
             \/ (capture.template = "unread" /\ capture'.template = template)
          /\ capture'.tools = capture.tools \/ S!FirstGathered
          /\ capture'.skills = capture.skills \/ S!FirstGathered
          /\ S!FirstGathered => UNCHANGED <<capture.provider, capture.template>>
          /\ \/ UNCHANGED <<capture.tools, capture.skills, capture.items>>
             \/ /\ capture'.tools = "read" /\ capture'.skills = capture.skills
                /\ \A i \in S!Item :
                     capture'.items[i] = IF i \in Tool THEN row[i] ELSE capture.items[i]
             \/ /\ capture'.skills = "read" /\ capture'.tools = capture.tools
                /\ \A i \in S!Item :
                     capture'.items[i] = IF i \in Skill THEN row[i] ELSE capture.items[i]
      <3>1. capture \in S!Data
        BY <1>1 DEF S!TypeOK
      <3>2. CASE S!CaptureLlm
        BY <2>2, <3>1, <3>2 DEF S!CaptureLlm, S!Data, S!FirstGathered
      <3>3. CASE S!CapturePrompt
        BY <2>2, <3>1, <3>3 DEF S!CapturePrompt, S!Data, S!FirstGathered
      <3>4. CASE S!CaptureTools
        BY <2>2, <3>1, <3>4 DEF S!CaptureTools, S!Data, S!FirstGathered
      <3>5. CASE S!CaptureSkills
        BY <2>2, <3>1, <3>5 DEF S!CaptureSkills, S!Data, S!FirstGathered
      <3>6. QED
        BY <1>4, <3>2, <3>3, <3>4, <3>5
    <2>4. Gathered'
      BY <1>1, <1>2, <1>3, <2>1, <2>2, <2>3 DEF Gathered, S!FirstGathered, S!Item
    <2>5. S!TypeOK'
      BY <1>1, <1>2, <2>1, <2>3 DEF S!TypeOK
    <2>6. QED
      BY <1>3, <2>1, <2>4, <2>5 DEF SnapshotInv
  <1>5. CASE S!CreateSnapshot
    <2>1. Sound(capture) /\ capture \in S!Data
      BY <1>1, <1>5 DEF S!CreateSnapshot, Gathered, S!FirstGathered, Sound, S!Item
    <2>2. /\ snapshot' \in [data : S!Data, active : BOOLEAN] /\ UNCHANGED capture
          /\ snapshot'.data = capture /\ snapshot = None
      BY <2>1, <1>5 DEF S!CreateSnapshot
    <2>3. /\ \A d : Sound(d) => Sound(d)'
          /\ \A u \in User : Made(u) => Made(u)'
      BY <1>2 DEF Sound, Made, S!SentLive
    <2>4. \A u \in User : Restored(u)'
      BY <1>2, <2>1, <2>2, <2>3 DEF SnapshotInv, Restored
    <2>5. Gathered'
      BY <1>1, <1>2, <2>1, <2>2, <2>3 DEF Gathered, S!FirstGathered
    <2>6. S!TypeOK'
      BY <1>1, <1>2, <2>2 DEF S!TypeOK, S!Maybe
    <2>7. QED
      BY <2>4, <2>5, <2>6 DEF SnapshotInv
  <1>6. CASE S!DeleteSnapshot
    <2>1. /\ snapshot \in [data : S!Data, active : BOOLEAN] /\ Sound(snapshot.data)
      BY <1>1, <1>6 DEF S!DeleteSnapshot, S!TypeOK, S!Maybe, Gathered
    <2>2. /\ snapshot' \in [data : S!Data, active : BOOLEAN] /\ UNCHANGED capture
          /\ snapshot'.data = snapshot.data /\ snapshot' # None /\ snapshot # None
      BY <2>1, <1>6, ConfigAssumption DEF S!DeleteSnapshot
    <2>3. /\ \A d : Sound(d) => Sound(d)'
          /\ \A u \in User : Made(u) => Made(u)'
      BY <1>2 DEF Sound, Made, S!SentLive
    <2>4. \A u \in User : Restored(u)'
      BY <1>2, <2>1, <2>2, <2>3 DEF SnapshotInv, Restored
    <2>5. Gathered'
      BY <1>1, <1>2, <2>1, <2>2, <2>3 DEF Gathered, S!FirstGathered
    <2>6. S!TypeOK'
      BY <1>1, <1>2, <2>2 DEF S!TypeOK, S!Maybe
    <2>7. QED
      BY <2>4, <2>5, <2>6 DEF SnapshotInv
  <1>7. QED
    BY <1>4, <1>5, <1>6

\* A step of one chat leaves what the others have.
LEMMA OthersStay ==
    ASSUME SnapshotInv, NEW u \in User, UNCHANGED <<snapshot, during, reloaded>>,
           \A w \in User \ {u} : /\ stage'[w] = stage[w] /\ strict'[w] = strict[w]
                                 /\ frozen'[w] = frozen[w] /\ agent'[w] = agent[w]
    PROVE  /\ \A w \in User \ {u} : Restored(w)'
           /\ \A data : Sound(data) => Sound(data)'
  <1>1. \A data : Sound(data) => Sound(data)'
    BY DEF Sound
  <1>2. \A w \in User \ {u} : Made(w) => Made(w)'
    BY DEF Made, S!SentLive
  <1>3. QED
    BY <1>1, <1>2 DEF SnapshotInv, Restored

LEMMA RequestStep ==
    ASSUME SnapshotInv, NEW u \in User,
           \/ S!Ask(u) \/ S!FetchSnapshot(u) \/ S!FetchLlm(u) \/ S!Restore(u)
           \/ S!Resolve(u) \/ S!LivePrompt(u) \/ S!LiveLlm(u) \/ S!LiveAgent(u) \/ S!Load(u)
    PROVE  SnapshotInv'
  <1> USE DEF S!configVars, S!captureVars, S!To
  <1>1. S!TypeOK /\ Gathered /\ Restored(u)
    BY DEF SnapshotInv
  <1>2. UNCHANGED <<row, live, template, model, default, edits, reloaded, capture, snapshot,
                    during>>
    BY DEF S!Ask, S!FetchSnapshot, S!FetchLlm, S!Restore, S!Resolve, S!LivePrompt,
           S!LiveLlm, S!LiveAgent, S!Load
  <1>3. Gathered'
    BY <1>1, <1>2 DEF Gathered, Sound, S!FirstGathered
  <1>4. /\ stage \in [User -> {"idle", "fetch", "llm", "build", "prompt", "default",
                               "active", "load", "answered", "refused"}]
        /\ strict \in [User -> BOOLEAN] /\ frozen \in [User -> S!Maybe(S!Data)]
        /\ agent \in [User -> S!Agent]
        /\ template \in S!Maybe(Value) /\ model \in [Provider -> Value]
        /\ default \in S!Maybe(Provider) /\ live \in [S!Item -> S!Maybe(Value)]
        /\ snapshot \in S!Maybe([data : S!Data, active : BOOLEAN])
    BY <1>1 DEF S!TypeOK
  <1> DEFINE Next ==
        /\ stage' \in [User -> {"idle", "fetch", "llm", "build", "prompt", "default",
                               "active", "load", "answered", "refused"}]
        /\ strict' \in [User -> BOOLEAN] /\ frozen' \in [User -> S!Maybe(S!Data)]
        /\ agent' \in [User -> S!Agent]
        /\ \A w \in User \ {u} : /\ stage'[w] = stage[w] /\ strict'[w] = strict[w]
                                 /\ frozen'[w] = frozen[w] /\ agent'[w] = agent[w]
        /\ Restored(u)'
  <1>5. Next => SnapshotInv'
    <2>1. Next => S!TypeOK'
      BY <1>1, <1>2 DEF S!TypeOK
    <2>2. Next => \A w \in User \ {u} : Restored(w)'
      BY <1>2, OthersStay
    <2>3. QED
      BY <1>3, <2>1, <2>2 DEF SnapshotInv
  <1>6. \A data : Sound(data) => Sound(data)'
    BY <1>2 DEF Sound
  <1>7. CASE S!Ask(u)
    <2>1. Next
      BY <1>1, <1>2, <1>4, <1>6, <1>7 DEF S!Ask, S!Maybe, Gathered, Restored
    <2>2. QED
      BY <1>5, <2>1
  <1>8. CASE S!FetchSnapshot(u)
    <2>1. Next
      BY <1>1, <1>2, <1>4, <1>6, <1>8 DEF S!FetchSnapshot, S!GiveUp, S!Maybe, Restored
    <2>2. QED
      BY <1>5, <2>1
  <1>9. CASE S!FetchLlm(u)
    <2>1. Sound(frozen[u]) /\ frozen[u].provider \in Provider
      BY <1>1, <1>9 DEF S!FetchLlm, Restored, Sound, S!Data, S!Maybe
    <2>2. agent' \in [User -> S!Agent]
      BY <1>4, <1>9, <2>1 DEF S!FetchLlm, S!Agent, S!Maybe
    <2>3. Next
      BY <1>1, <1>2, <1>4, <1>6, <1>9, <2>1, <2>2 DEF S!FetchLlm, Restored
    <2>4. QED
      BY <1>5, <2>3
  <1>10. ASSUME NEW items \in [S!Item -> S!Maybe(Value)], stage[u] = "build", S!Built(u, items),
                UNCHANGED <<strict, frozen>>,
                stage' = [stage EXCEPT ![u] = "load"]
                \/ (stage' = [stage EXCEPT ![u] = "prompt"] /\ frozen[u].template = None),
                \A i \in S!Item : IF strict[u]
                                  THEN items[i] = IF frozen[u].items[i] = None THEN None
                                                  ELSE live[i]
                                  ELSE items[i] = frozen[u].items[i]
         PROVE  Next
    <2>1. Sound(frozen[u]) /\ frozen[u].template \in S!Maybe(Value)
      BY <1>1, <1>10 DEF Restored, Sound, S!Data, S!Maybe
    <2>2. S!Lists(frozen[u]) \in SUBSET {Tool, Skill}
      BY DEF S!Lists
    <2>3. agent[u] \in S!Agent
      BY <1>4
    <2>4. /\ agent' \in [User -> S!Agent] /\ \A w \in User \ {u} : agent'[w] = agent[w]
          /\ agent'[u].items = items /\ agent'[u].own = S!Lists(frozen[u])
          /\ frozen[u].template # None => agent'[u].template = frozen[u].template
      BY <1>4, <1>10, <2>1, <2>2, <2>3 DEF S!Built, S!Agent
    <2>5. Made(u)'
      <3>1. \A i \in S!Item : frozen[u].items[i] \in during[i]
        BY <2>1 DEF Sound
      <3>2. \A i \in S!Item : live[i] \in during[i] \/ i \in reloaded
        BY <1>1 DEF Gathered
      <3>3. \A i \in S!Item :
              /\ items[i] \in during[i] \/ (i \in reloaded /\ strict[u])
              /\ IF strict[u] THEN items[i] # None => frozen[u].items[i] # None
                              ELSE items[i] = frozen[u].items[i]
        BY <1>10, <3>1, <3>2
      <3>4. QED
        BY <1>2, <1>10, <2>2, <2>4, <3>3 DEF Made, S!SentLive, S!Item, S!Lists
    <2>6. Restored(u)'
      BY <1>1, <1>2, <1>4, <1>6, <1>10, <2>1, <2>5 DEF Restored
    <2>7. QED
      BY <1>4, <1>10, <2>4, <2>6
  <1>11. CASE S!Restore(u) \/ S!Resolve(u)
    <2>1. Sound(frozen[u]) /\ frozen[u].items \in [S!Item -> S!Maybe(Value)]
      BY <1>1, <1>11 DEF S!Restore, S!Resolve, Restored, Sound, S!Data
    <2>2. [i \in S!Item |-> IF frozen[u].items[i] = None THEN None ELSE live[i]]
            \in [S!Item -> S!Maybe(Value)]
      BY <1>4 DEF S!Maybe
    <2>3. Next
      BY <1>10, <1>11, <2>1, <2>2 DEF S!Restore, S!Resolve
    <2>4. QED
      BY <1>5, <2>3
  <1>12. CASE S!LivePrompt(u)
    <2>1. agent[u] \in S!Agent
      BY <1>4
    <2>2. /\ agent' \in [User -> S!Agent] /\ \A w \in User \ {u} : agent'[w] = agent[w]
          /\ agent'[u].items = agent[u].items /\ agent'[u].own = agent[u].own
          /\ agent'[u].model = agent[u].model
      BY <1>4, <1>12, <2>1 DEF S!LivePrompt, S!Agent
    <2>3. frozen[u].template = None /\ (strict[u] \/ Made(u)')
      BY <1>1, <1>12, <2>2 DEF S!LivePrompt, Restored, Made, S!Lists, S!SentLive
    <2>4. Restored(u)'
      BY <1>1, <1>2, <1>4, <1>6, <1>12, <2>3 DEF S!LivePrompt, Restored
    <2>5. QED
      BY <1>4, <1>5, <1>12, <2>2, <2>4 DEF S!LivePrompt
  <1>13. CASE S!LiveLlm(u)
    <2> DEFINE value == IF default = None THEN None ELSE model[default]
    <2>1. agent' \in [User -> S!Agent]
      <3>1. value \in S!Maybe(Value)
        BY <1>4 DEF S!Maybe
      <3>2. \A v \in S!Maybe(Value) : [agent EXCEPT ![u].model = v] \in [User -> S!Agent]
        BY <1>4 DEF S!Agent
      <3>3. agent' = [agent EXCEPT ![u].model = value] \/ agent' = agent
        BY <1>13 DEF S!LiveLlm
      <3>4. QED
        BY <1>4, <3>1, <3>2, <3>3
    <2>2. /\ frozen' \in [User -> S!Maybe(S!Data)] /\ frozen'[u] = None
          /\ \A w \in User \ {u} : frozen'[w] = frozen[w] /\ agent'[w] = agent[w]
      BY <1>4, <1>13 DEF S!LiveLlm, S!Maybe
    <2>3. Next
      BY <1>1, <1>2, <1>4, <1>6, <1>13, <2>1, <2>2 DEF S!LiveLlm, Restored
    <2>4. QED
      BY <1>5, <2>3
  <1>14. CASE S!LiveAgent(u)
    <2>1. agent' \in [User -> S!Agent]
      BY <1>4, <1>14 DEF S!LiveAgent, S!Agent
    <2>2. Next
      BY <1>1, <1>2, <1>4, <1>6, <1>14, <2>1 DEF S!LiveAgent, Restored
    <2>3. QED
      BY <1>5, <2>2
  <1>15. CASE S!Load(u)
    <2>1. agent[u] \in S!Agent
      BY <1>4
    <2>2. /\ agent' \in [User -> S!Agent] /\ agent'[u] = [agent[u] EXCEPT !.items = agent'[u].items]
          /\ \A w \in User \ {u} : agent'[w] = agent[w]
          /\ \A i \in S!Item : agent'[u].items[i] = live[i]
                 \/ \E list \in agent[u].own : i \in list /\ ~S!SentLive(u, list)
          /\ \A list \in agent[u].own : S!SentLive(u, list) \/ \A i \in list \cap S!Item :
               agent'[u].items[i] = agent[u].items[i]
          /\ UNCHANGED <<strict, frozen>> /\ stage[u] = "load"
      BY <1>4, <1>15, <2>1 DEF S!Load, S!Agent
    <2>3. frozen[u] = None \/ (Sound(frozen[u]) /\ Made(u)')
      <3>1. SUFFICES ASSUME Made(u) PROVE Made(u)'
        BY <1>1, <2>2 DEF Restored
      <3>2. /\ agent'[u].own = agent[u].own /\ agent'[u].template = agent[u].template
            /\ agent'[u].model = agent[u].model
        BY <2>1, <2>2 DEF S!Agent
      <3>3. ASSUME NEW list \in S!Lists(frozen[u]), NEW i \in list
            PROVE  IF S!SentLive(u, list) THEN agent'[u].items[i] = live[i]
                                          ELSE agent'[u].items[i] = agent[u].items[i]
        <4>1. i \in S!Item /\ list \in agent[u].own /\ agent[u].own \subseteq {Tool, Skill}
          BY <3>1 DEF Made, S!Lists, S!Item
        <4>2. S!SentLive(u, list) =>
                ~\E other \in agent[u].own : i \in other /\ ~S!SentLive(u, other)
          BY <4>1, ConfigAssumption DEF S!SentLive
        <4>3. QED
          BY <2>2, <4>1, <4>2
      <3>4. \A i \in S!Item : live[i] \in during[i] \/ i \in reloaded
        BY <1>1 DEF Gathered
      <3>5. \A list \in S!Lists(frozen[u]) : list \subseteq S!Item
        BY DEF S!Lists, S!Item
      <3>6. QED
        BY <1>2, <2>2, <3>1, <3>2, <3>3, <3>4, <3>5 DEF Made, S!Lists, S!SentLive
    <2>4. Next
      BY <1>1, <1>2, <1>4, <1>6, <1>15, <2>2, <2>3 DEF S!Load, Restored
    <2>5. QED
      BY <1>5, <2>4
  <1>16. QED
    BY <1>7, <1>8, <1>9, <1>11, <1>12, <1>13, <1>14, <1>15

LEMMA SnapshotStep == ASSUME SnapshotInv, [S!Next]_(S!snapshotVars) PROVE SnapshotInv'
  <1>1. CASE S!Next
    BY <1>1, EditStep, CaptureStep, RequestStep DEF S!Next
  <1>2. CASE UNCHANGED S!snapshotVars
    BY <1>2 DEF S!snapshotVars, S!configVars, S!captureVars, S!requestVars, SnapshotInv,
                S!TypeOK, Gathered, Restored, Sound, Made, S!SentLive, S!FirstGathered
  <1>3. QED
    BY <1>1, <1>2

LEMMA SnapshotsHold == ConfigSpec => []SnapshotInv
  <1>1. ConfigInit => SnapshotInv
    BY SnapshotInit DEF ConfigInit
  <1>2. [ConfigNext]_configVars => [S!Next]_(S!snapshotVars)
    BY DEF ConfigNext, configVars, snapshotVars, S!snapshotVars, S!configVars,
           S!captureVars, S!requestVars
  <1>3. SnapshotInv /\ [ConfigNext]_configVars => SnapshotInv'
    BY <1>2, SnapshotStep
  <1>4. QED
    BY <1>1, <1>3, PTL DEF ConfigSpec

\* snapshot_service.py:549-576: an agent made of a snapshot has what was there
\* when it was captured, however the configuration goes on changing, but for what
\* has changed in the registries, where it is taken from them (chat_service.py:901-930,
\* chat_agent.py:463-477).
THEOREM AgentsAreFrozen == ConfigSpec => []FrozenStaysFrozen
  <1>1. SnapshotInv => FrozenStaysFrozen
    BY DEF SnapshotInv, Restored, Made, Sound, FrozenStaysFrozen, S!FrozenStaysFrozen,
           S!FromSnapshot, S!AsCaptured, S!Lists, S!Item
  <1>2. QED
    BY <1>1, SnapshotsHold, PTL

-----------------------------------------------------------------------------
(* Versions.                                                               *)

\* What a request is doing is what it was asked, and what it holds is of the
\* kind it needs.
Asked(r) ==
    /\ V!Under(r) => op[r] \in V!Op
    /\ place[r] = "begin" => op[r].kind # "label"
    /\ place[r] = "save" => op[r].kind \in {"put", "disable"} /\ held[r] \in V!Row
    /\ place[r] \in {"load", "commit"} => op[r].kind \in {"post", "put", "label"}
    /\ place[r] = "commit" => held[r] \in Content
    /\ place[r] = "write" => op[r].kind \in {"activate", "drop"}

\* A version is numbered no higher than its place among all that were created.
Numbered == \A i \in DOMAIN versions : versions[i].number <= i

OneActive == \A e \in V!Entity : \A i, j \in V!ActiveOf(e) : i = j

Matches(e) ==
    stored[e] # None /\ V!VersionsOf(e) # {} =>
        \E i \in V!ActiveOf(e) : versions[i].data = stored[e].content

\* A request that works on an entity alone: up to the row it saves, and from the
\* version it commits on, the active version is that of the row.
Working(r, e) ==
    /\ place[r] \in {"begin", "save", "write"} => Matches(e)
    /\ place[r] = "save" => stored[e] # None /\ held[r].content = stored[e].content
    /\ place[r] = "commit" => stored[e] # None /\ held[r] = stored[e].content
    /\ place[r] = "write" /\ op[r].kind = "drop" => versions[op[r].of].state # "active"

Works(r, e) == V!Under(r) /\ V!Subject(op[r]) = e

Booked(e) ==
    /\ \A r, q \in Request : Works(r, e) /\ Works(q, e) => r = q
    /\ e \notin failed =>
         /\ (\A r \in Request : ~Works(r, e)) => Matches(e)
         /\ \A r \in Request : Works(r, e) => Working(r, e)

VersionInv ==
    /\ V!TypeOK /\ Numbered /\ \A r \in Request : Asked(r)
    /\ V!NumbersUnique /\ OneActive
    /\ \A e \in V!Entity \ crossed : Booked(e)

\* version_service.py:74-85: the new number is above those of all live
\* versions, and there is one.
LEMMA NextNumberIsNew ==
    ASSUME V!TypeOK, Numbered, NEW e \in V!Entity
    PROVE  /\ V!NextNumber(e) \in 1 .. Len(versions) + 1
           /\ \A i \in V!VersionsOf(e) : versions[i].number < V!NextNumber(e)
  <1> DEFINE Above(n) == \A i \in V!VersionsOf(e) : versions[i].number < n
             T == {n \in Nat : n >= 1 /\ Above(n)}
  <1>1. /\ Len(versions) \in Nat /\ DOMAIN versions = 1 .. Len(versions)
        /\ V!VersionsOf(e) \subseteq DOMAIN versions
        /\ \A i \in DOMAIN versions : versions[i].number \in Nat \ {0}
                                      /\ versions[i].number <= i
    <2>1. versions \in Seq(V!Version)
      BY DEF V!TypeOK
    <2>2. /\ Len(versions) \in Nat /\ DOMAIN versions = 1 .. Len(versions)
          /\ \A i \in DOMAIN versions : versions[i] \in V!Version
      BY <2>1
    <2>3. \A v \in V!Version : v.number \in Nat \ {0}
      BY DEF V!Version
    <2>4. QED
      BY <2>2, <2>3 DEF V!VersionsOf, Numbered
  <1>2. Len(versions) + 1 \in T
    BY <1>1
  <1>3. PICK n \in T : \A m \in T : n <= m
    <2> HIDE DEF T
    <2>1. T \in SUBSET Nat
      BY DEF T
    <2>2. QED
      BY <1>2, <2>1, LeastNat
  <1>4. n \in 1 .. Len(versions) + 1 /\ Above(n)
    BY <1>1, <1>2, <1>3
  <1>5. n = 1 \/ \E i \in V!VersionsOf(e) : versions[i].number = n - 1
    <2>1. CASE n # 1
      <3>1. n - 1 \in Nat /\ n - 1 >= 1 /\ n - 1 \notin T
        BY <1>3, <1>4, <2>1
      <3>2. PICK i \in V!VersionsOf(e) : ~(versions[i].number < n - 1)
        BY <3>1
      <3>3. QED
        BY <1>1, <1>4, <3>1, <3>2
    <2>2. QED
      BY <2>1
  <1>6. QED
    BY <1>4, <1>5 DEF V!NextNumber

LEMMA ReplaceIs ==
    ASSUME NEW Q, NEW q \in Seq(Q), NEW k \in DOMAIN q, NEW x \in Q
    PROVE  /\ [q EXCEPT ![k] = x] \in Seq(Q) /\ DOMAIN [q EXCEPT ![k] = x] = DOMAIN q
           /\ [q EXCEPT ![k] = x][k] = x
           /\ \A i \in DOMAIN q \ {k} : [q EXCEPT ![k] = x][i] = q[i]
  OBVIOUS

LEMMA VersionFacts ==
    ASSUME V!TypeOK
    PROVE  /\ versions \in Seq(V!Version) /\ Len(versions) \in Nat
           /\ DOMAIN versions = 1 .. Len(versions)
           /\ \A i \in DOMAIN versions :
                /\ versions[i] \in V!Version
                /\ versions[i].of \in V!Entity /\ versions[i].number \in Nat \ {0}
                /\ versions[i].data \in Content
                /\ versions[i].state \in {"active", "inactive", "deleted"}
           /\ \A e : V!VersionsOf(e) \subseteq DOMAIN versions
  <1>1. versions \in Seq(V!Version)
    BY DEF V!TypeOK
  <1>2. \A v \in V!Version : /\ v.of \in V!Entity /\ v.number \in Nat \ {0} /\ v.data \in Content
                             /\ v.state \in {"active", "inactive", "deleted"}
    BY DEF V!Version
  <1>3. QED
    BY <1>1, <1>2 DEF V!VersionsOf

\* What a request may ask for, and of which entity.
LEMMA OpFacts ==
    ASSUME V!TypeOK, NEW o \in V!Op
    PROVE  /\ o.kind \in {"post", "put", "disable", "enable", "remove", "label", "activate", "drop"}
           /\ o.kind \in {"post", "put", "disable", "enable", "remove", "label"} =>
                o.of \in V!Entity /\ V!Subject(o) = o.of
           /\ o.kind \in {"post", "put", "disable", "enable", "remove"} => o.of \in Prompt
           /\ o.kind \in {"activate", "drop"} =>
                o.of \in DOMAIN versions /\ V!Subject(o) = versions[o.of].of
           /\ V!Subject(o) \in V!Entity
  <1>1. /\ o.kind \in {"post", "put", "disable", "enable", "remove", "label", "activate", "drop"}
        /\ o.kind \in {"post", "put", "disable", "enable", "remove", "label"} => o.of \in V!Entity
        /\ o.kind \in {"post", "put", "disable", "enable", "remove"} => o.of \in Prompt
        /\ o.kind \in {"activate", "drop"} => o.of \in DOMAIN versions
    BY DEF V!Op, V!Entity
  <1>2. \A i \in DOMAIN versions : i \notin V!Entity /\ versions[i].of \in V!Entity
    BY VersionFacts, ConfigAssumption DEF V!Entity
  <1>3. QED
    BY <1>1, <1>2 DEF V!Subject

LEMMA DeactivatedIs ==
    ASSUME V!TypeOK, NEW e \in V!Entity
    PROVE  /\ V!Deactivated(e) \in Seq(V!Version)
           /\ DOMAIN V!Deactivated(e) = DOMAIN versions
           /\ Len(V!Deactivated(e)) = Len(versions)
           /\ \A i \in DOMAIN versions :
                LET v == V!Deactivated(e)[i] IN
                /\ v \in V!Version
                /\ v.of = versions[i].of /\ v.number = versions[i].number
                /\ v.data = versions[i].data
                /\ v.state = IF i \in V!VersionsOf(e) THEN "inactive" ELSE versions[i].state
  <1>1. \A v \in V!Version : /\ [v EXCEPT !.state = "inactive"] \in V!Version
                             /\ [v EXCEPT !.state = "inactive"].of = v.of
                             /\ [v EXCEPT !.state = "inactive"].number = v.number
                             /\ [v EXCEPT !.state = "inactive"].data = v.data
                             /\ [v EXCEPT !.state = "inactive"].state = "inactive"
    BY DEF V!Version
  <1>2. DOMAIN V!Deactivated(e) = DOMAIN versions /\ DOMAIN versions = 1 .. Len(versions)
        /\ Len(versions) \in Nat
    BY VersionFacts DEF V!Deactivated
  <1>3. \A i \in DOMAIN versions :
          LET v == V!Deactivated(e)[i] IN
          /\ v \in V!Version
          /\ v.of = versions[i].of /\ v.number = versions[i].number
          /\ v.data = versions[i].data
          /\ v.state = IF i \in V!VersionsOf(e) THEN "inactive" ELSE versions[i].state
    BY <1>1, VersionFacts DEF V!Deactivated
  <1>4. V!Deactivated(e) \in [1 .. Len(versions) -> V!Version]
    BY <1>2, <1>3 DEF V!Deactivated
  <1>5. V!Deactivated(e) \in Seq(V!Version) /\ Len(V!Deactivated(e)) = Len(versions)
    BY <1>2, <1>4
  <1>6. QED
    BY <1>2, <1>3, <1>5

\* What a step that works on an entity leaves of the others.
Elsewhere(s) ==
    /\ DOMAIN versions \subseteq DOMAIN versions'
    /\ \A i \in DOMAIN versions :
         /\ versions'[i].of = versions[i].of /\ versions'[i].number = versions[i].number
         /\ versions'[i].data = versions[i].data
         /\ versions[i].of # s => versions'[i].state = versions[i].state
    /\ \A i \in DOMAIN versions' \ DOMAIN versions : versions'[i].of = s
    /\ \A e \in V!Entity \ {s} :
         /\ stored[e] = None <=> stored'[e] = None
         /\ stored[e] # None => stored'[e].content = stored[e].content

LEMMA CommitIs ==
    ASSUME V!TypeOK, Numbered, NEW e \in V!Entity, NEW c \in Content, UNCHANGED stored,
           versions' = Append(V!Deactivated(e), [of |-> e, number |-> V!NextNumber(e),
                                                 data |-> c, state |-> "active"])
    PROVE  /\ versions' \in Seq(V!Version) /\ Elsewhere(e)
           /\ Len(versions)' = Len(versions) + 1
           /\ \A i \in V!VersionsOf(e) : versions'[i].state = "inactive"
           /\ \A i \in DOMAIN versions \ V!VersionsOf(e) : versions'[i].state = versions[i].state
           /\ LET v == versions'[Len(versions) + 1] IN
              v.of = e /\ v.number = V!NextNumber(e) /\ v.data = c /\ v.state = "active"
  <1> DEFINE new == [of |-> e, number |-> V!NextNumber(e), data |-> c, state |-> "active"]
             old == V!Deactivated(e)
  <1>1. /\ new \in V!Version
        /\ new.of = e /\ new.number = V!NextNumber(e) /\ new.data = c /\ new.state = "active"
    BY NextNumberIsNew, VersionFacts DEF V!Version
  <1>2. /\ old \in Seq(V!Version) /\ Len(old) = Len(versions) /\ DOMAIN old = DOMAIN versions
        /\ DOMAIN versions = 1 .. Len(versions) /\ Len(versions) \in Nat
    BY DeactivatedIs, VersionFacts
  <1> HIDE DEF new, old
  <1>3. versions' = Append(old, new)
    BY DEF old, new
  <1>4. /\ versions' \in Seq(V!Version) /\ Len(versions') = Len(versions) + 1
        /\ DOMAIN versions' = 1 .. Len(versions) + 1
        /\ \A i \in DOMAIN versions : versions'[i] = old[i]
        /\ versions'[Len(versions) + 1] = new
    <2>1. /\ Append(old, new) \in Seq(V!Version) /\ Len(Append(old, new)) = Len(old) + 1
          /\ DOMAIN Append(old, new) = 1 .. Len(old) + 1
          /\ \A i \in DOMAIN old : Append(old, new)[i] = old[i]
          /\ Append(old, new)[Len(old) + 1] = new
      BY SMTT(20), <1>1, <1>2, AppendIs
    <2>2. QED
      BY <1>2, <1>3, <2>1, Zenon
  <1>5. \A i \in DOMAIN versions :
          /\ versions'[i].of = versions[i].of /\ versions'[i].number = versions[i].number
          /\ versions'[i].data = versions[i].data
          /\ versions'[i].state = IF i \in V!VersionsOf(e) THEN "inactive" ELSE versions[i].state
    BY <1>4, DeactivatedIs DEF old
  <1>6. Elsewhere(e)
    BY <1>1, <1>2, <1>4, <1>5 DEF Elsewhere, V!VersionsOf
  <1>7. QED
    BY <1>1, <1>4, <1>5, <1>6, VersionFacts

LEMMA ActivateIs ==
    ASSUME V!TypeOK, NEW k \in DOMAIN versions, versions[k].state # "deleted",
           versions' = [V!Deactivated(versions[k].of) EXCEPT ![k].state = "active"]
    PROVE  /\ versions' \in Seq(V!Version) /\ DOMAIN versions' = DOMAIN versions
           /\ \A i \in DOMAIN versions :
                /\ versions'[i].of = versions[i].of /\ versions'[i].number = versions[i].number
                /\ versions'[i].data = versions[i].data
                /\ versions'[i].state = IF i = k THEN "active"
                     ELSE IF i \in V!VersionsOf(versions[k].of) THEN "inactive"
                     ELSE versions[i].state
  <1> DEFINE old == V!Deactivated(versions[k].of)
  <1>1. /\ old \in Seq(V!Version) /\ Len(old) = Len(versions) /\ DOMAIN old = DOMAIN versions
        /\ DOMAIN versions = 1 .. Len(versions) /\ Len(versions) \in Nat
        /\ versions[k].of \in V!Entity
    BY DeactivatedIs, VersionFacts
  <1>2. \A i \in DOMAIN versions :
          /\ old[i] \in V!Version
          /\ old[i].of = versions[i].of /\ old[i].number = versions[i].number
          /\ old[i].data = versions[i].data
          /\ old[i].state = IF i \in V!VersionsOf(versions[k].of) THEN "inactive"
                            ELSE versions[i].state
    BY <1>1, DeactivatedIs
  <1> HIDE DEF old
  <1>3. \A v \in V!Version : /\ [v EXCEPT !.state = "active"] \in V!Version
                             /\ [v EXCEPT !.state = "active"].of = v.of
                             /\ [v EXCEPT !.state = "active"].number = v.number
                             /\ [v EXCEPT !.state = "active"].data = v.data
                             /\ [v EXCEPT !.state = "active"].state = "active"
    BY DEF V!Version
  <1>4. versions' = [old EXCEPT ![k] = [old[k] EXCEPT !.state = "active"]]
    BY DEF old
  <1>5. [old[k] EXCEPT !.state = "active"] \in V!Version
    BY <1>1, <1>2, <1>3
  <1> DEFINE now == [old[k] EXCEPT !.state = "active"]
  <1>6. /\ versions' \in Seq(V!Version) /\ DOMAIN versions' = DOMAIN versions
        /\ versions'[k] = now
        /\ \A i \in DOMAIN versions \ {k} : versions'[i] = old[i]
    <2> HIDE DEF now
    <2>1. /\ [old EXCEPT ![k] = now] \in Seq(V!Version)
          /\ DOMAIN [old EXCEPT ![k] = now] = DOMAIN old
          /\ [old EXCEPT ![k] = now][k] = now
          /\ \A i \in DOMAIN old \ {k} : [old EXCEPT ![k] = now][i] = old[i]
      BY <1>1, <1>5, ReplaceIs DEF now
    <2>2. versions' = [old EXCEPT ![k] = now]
      BY <1>4 DEF now
    <2>3. QED
      BY <1>1, <2>1, <2>2, Zenon
  <1>7. /\ now.of = old[k].of /\ now.number = old[k].number /\ now.data = old[k].data
        /\ now.state = "active"
    BY <1>1, <1>2, <1>3
  <1> HIDE DEF now
  <1>8. QED
    BY ZenonT(30), <1>2, <1>6, <1>7

LEMMA DeleteIs ==
    ASSUME V!TypeOK, NEW k \in DOMAIN versions,
           versions' = [versions EXCEPT ![k].state = "deleted"]
    PROVE  /\ versions' \in Seq(V!Version) /\ DOMAIN versions' = DOMAIN versions
           /\ \A i \in DOMAIN versions :
                /\ versions'[i].of = versions[i].of /\ versions'[i].number = versions[i].number
                /\ versions'[i].data = versions[i].data
                /\ versions'[i].state = IF i = k THEN "deleted" ELSE versions[i].state
  <1>1. \A v \in V!Version : /\ [v EXCEPT !.state = "deleted"] \in V!Version
                             /\ [v EXCEPT !.state = "deleted"].of = v.of
                             /\ [v EXCEPT !.state = "deleted"].number = v.number
                             /\ [v EXCEPT !.state = "deleted"].data = v.data
                             /\ [v EXCEPT !.state = "deleted"].state = "deleted"
    BY DEF V!Version
  <1>2. /\ versions' \in [1 .. Len(versions) -> V!Version]
        /\ versions'[k] = [versions[k] EXCEPT !.state = "deleted"]
        /\ \A i \in DOMAIN versions \ {k} : versions'[i] = versions[i]
    BY <1>1, VersionFacts
  <1>3. versions' \in Seq(V!Version) /\ DOMAIN versions' = DOMAIN versions
    BY <1>2, VersionFacts
  <1>4. QED
    BY <1>1, <1>2, <1>3, VersionFacts

\* What every step of a request but its first does.
Step(r) ==
    /\ V!Under(r) /\ UNCHANGED crossed
    /\ op' = IF place'[r] = "done" THEN [op EXCEPT ![r] = None] ELSE op
    /\ failed' \in {failed, failed \cup {V!Subject(op[r])}}
    /\ place' = [place EXCEPT ![r] = place'[r]]
    /\ place'[r] \in {"save", "load", "commit", "write", "done"}
    /\ held' = [held EXCEPT ![r] = held'[r]] /\ held'[r] \in V!Row \cup Content \cup {None}
    /\ stored' \in [V!Entity -> V!Row \cup {None}] /\ versions' \in Seq(V!Version)
    /\ Elsewhere(V!Subject(op[r]))
    /\ place'[r] = "save" => op[r].kind \in {"put", "disable"} /\ held'[r] \in V!Row
    /\ place'[r] \in {"load", "commit"} => op[r].kind \in {"post", "put", "label"}
    /\ place'[r] = "commit" => held'[r] \in Content
    /\ place'[r] = "write" => op[r].kind \in {"activate", "drop"}

LEMMA StepIs ==
    ASSUME V!TypeOK, Numbered, NEW r \in Request, Asked(r),
           \/ V!PostTemplate(r) \/ V!ReadTemplate(r) \/ V!SaveTemplate(r)
           \/ V!EnableTemplate(r) \/ V!RemoveTemplate(r) \/ V!LoadEntity(r)
           \/ V!CommitVersion(r) \/ V!ReadVersion(r) \/ V!ActivateVersion(r)
           \/ V!DeleteVersion(r) \/ V!Fail(r)
    PROVE  Step(r)
  <1> DEFINE s == V!Subject(op[r])
  <1>1. /\ stored \in [V!Entity -> V!Row \cup {None}] /\ versions \in Seq(V!Version)
        /\ place \in [Request -> {"idle", "begin", "save", "load", "commit", "write", "done"}]
        /\ held \in [Request -> V!Row \cup Content \cup {None}]
        /\ Prompt \subseteq V!Entity
    BY DEF V!TypeOK, V!Entity
  <1>2. V!Under(r) /\ op[r] \in V!Op
    BY DEF V!PostTemplate, V!ReadTemplate, V!SaveTemplate, V!EnableTemplate,
           V!RemoveTemplate, V!LoadEntity, V!CommitVersion, V!ReadVersion, V!ActivateVersion,
           V!DeleteVersion, V!Fail, V!Under, Asked
  <1>3. /\ op[r].kind \in {"post", "put", "disable", "enable", "remove", "label"} =>
             op[r].of \in V!Entity /\ s = op[r].of
        /\ op[r].kind \in {"activate", "drop"} =>
             op[r].of \in DOMAIN versions /\ s = versions[op[r].of].of
        /\ s \in V!Entity
    BY <1>2, OpFacts
  <1>4. /\ \A x \in V!Row : x.content \in Content
        /\ \A x \in V!Row, b \in BOOLEAN : /\ [x EXCEPT !.active = b] \in V!Row
                                           /\ [x EXCEPT !.active = b].content = x.content
        /\ \A x \in V!Row, c \in Content : /\ [x EXCEPT !.content = c] \in V!Row
                                           /\ [x EXCEPT !.content = c].content = c
    BY DEF V!Row
  <1>5. UNCHANGED versions /\ stored' = [stored EXCEPT ![s] = stored'[s]] => Elsewhere(s)
    BY <1>1, <1>3 DEF Elsewhere
  <1>6. UNCHANGED <<stored, versions>> => Elsewhere(s)
    BY DEF Elsewhere
  <1>7. CASE V!PostTemplate(r)
    <2>1. /\ stored' \in [V!Entity -> V!Row \cup {None}] /\ UNCHANGED versions
          /\ stored' = [stored EXCEPT ![s] = stored'[s]]
      BY <1>1, <1>3, <1>7 DEF V!PostTemplate
    <2>2. QED
      BY <1>1, <1>2, <1>5, <1>7, <2>1 DEF V!PostTemplate, V!Goto, Step
  <1>8. CASE V!ReadTemplate(r)
    BY <1>1, <1>2, <1>3, <1>6, <1>8 DEF V!ReadTemplate, V!Goto, V!Hold, Step
  <1>9. CASE V!SaveTemplate(r)
    <2>1. /\ op[r].kind \in {"put", "disable"} /\ held[r] \in V!Row
      BY <1>9 DEF V!SaveTemplate, Asked
    <2>2. PICK new \in V!Row : stored' = [stored EXCEPT ![s] = new]
      BY <1>3, <1>4, <1>9, <2>1 DEF V!SaveTemplate
    <2>3. /\ stored' \in [V!Entity -> V!Row \cup {None}] /\ UNCHANGED versions
          /\ stored' = [stored EXCEPT ![s] = stored'[s]]
      BY <1>1, <1>3, <1>9, <2>2 DEF V!SaveTemplate
    <2>4. QED
      BY <1>1, <1>2, <1>5, <1>9, <2>1, <2>3 DEF V!SaveTemplate, V!Goto, V!Hold, Step
  <1>10. CASE V!EnableTemplate(r)
    <2>1. \A e \in V!Entity : stored[e] # None => stored[e] \in V!Row
      BY <1>1
    <2>2. CASE stored[op[r].of] = None
      BY <1>1, <1>2, <1>6, <1>10, <2>2 DEF V!EnableTemplate, V!Goto, Step
    <2>3. CASE stored[op[r].of] # None
      <3>1. stored' = [e \in V!Entity |->
                         IF e \in Skill \/ stored[e] = None THEN stored[e]
                         ELSE [stored[e] EXCEPT !.active = (e = op[r].of)]]
        BY <1>10, <2>3 DEF V!EnableTemplate
      <3>2. \A e \in V!Entity :
              \/ stored'[e] = stored[e]
              \/ /\ stored[e] # None /\ stored'[e] \in V!Row
                 /\ stored'[e].content = stored[e].content
        <4> TAKE e \in V!Entity
        <4>1. (e = op[r].of) \in BOOLEAN
          OBVIOUS
        <4>2. QED
          BY <1>4, <2>1, <3>1, <4>1
      <3>3. stored' \in [V!Entity -> V!Row \cup {None}]
        BY <1>1, <3>1, <3>2
      <3>4. Elsewhere(s)
        BY <1>10, <3>2, ConfigAssumption DEF V!EnableTemplate, Elsewhere
      <3>5. QED
        BY <1>1, <1>2, <1>10, <3>3, <3>4 DEF V!EnableTemplate, V!Goto, Step
    <2>4. QED
      BY <2>2, <2>3
  <1>11. CASE V!RemoveTemplate(r)
    <2>1. /\ stored' \in [V!Entity -> V!Row \cup {None}] /\ UNCHANGED versions
          /\ stored' = [stored EXCEPT ![s] = stored'[s]]
      BY <1>1, <1>3, <1>11 DEF V!RemoveTemplate
    <2>2. QED
      BY <1>1, <1>2, <1>5, <1>11, <2>1 DEF V!RemoveTemplate, V!Goto, Step
  <1>12. CASE V!LoadEntity(r)
    <2>1. op[r].kind \in {"post", "put", "label"}
      BY <1>12 DEF V!LoadEntity, Asked
    <2>2. stored[s] # None => V!Serialized(s) \in Content
      BY <1>1, <1>3, <1>4 DEF V!Serialized
    <2>3. QED
      BY <1>1, <1>2, <1>3, <1>6, <1>12, <2>1, <2>2 DEF V!LoadEntity, V!Goto, V!Hold, Step
  <1>13. CASE V!CommitVersion(r)
    <2>1. op[r].kind \in {"post", "put", "label"} /\ held[r] \in Content
      BY <1>13 DEF V!CommitVersion, Asked
    <2>2. /\ s = op[r].of /\ UNCHANGED stored
          /\ versions' = Append(V!Deactivated(s), [of |-> s, number |-> V!NextNumber(s),
                                                   data |-> held[r], state |-> "active"])
      BY <1>3, <1>13, <2>1 DEF V!CommitVersion
    <2>3. versions' \in Seq(V!Version) /\ Elsewhere(s)
      <3> HIDE DEF s
      <3>1. QED
        BY <1>3, <2>1, <2>2, CommitIs
    <2>4. QED
      BY <1>1, <1>2, <1>13, <2>2, <2>3 DEF V!CommitVersion, V!Goto, V!Hold, Step
  <1>14. CASE V!ReadVersion(r)
    BY <1>1, <1>2, <1>6, <1>14 DEF V!ReadVersion, V!Goto, Step
  <1>15. CASE V!ActivateVersion(r)
    <2>1. op[r].of \in DOMAIN versions /\ s = versions[op[r].of].of
      BY <1>3, <1>15 DEF V!ActivateVersion
    <2>2. CASE UNCHANGED <<stored, versions>>
      BY <1>1, <1>2, <1>6, <1>15, <2>2 DEF V!ActivateVersion, V!Goto, Step
    <2>3. CASE ~UNCHANGED <<stored, versions>>
      <3>1. /\ versions[op[r].of].state # "deleted"
            /\ versions' = [V!Deactivated(s) EXCEPT ![op[r].of].state = "active"]
            /\ stored' = V!Restored(versions[op[r].of])
        BY <1>15, <2>1, <2>3 DEF V!ActivateVersion
      <3>2. /\ versions' \in Seq(V!Version) /\ DOMAIN versions' = DOMAIN versions
            /\ \A i \in DOMAIN versions :
                 /\ versions'[i].of = versions[i].of /\ versions'[i].number = versions[i].number
                 /\ versions'[i].data = versions[i].data
                 /\ versions[i].of # s => versions'[i].state = versions[i].state
        BY <2>1, <3>1, ActivateIs DEF V!VersionsOf
      <3>3. /\ stored' \in [V!Entity -> V!Row \cup {None}]
            /\ stored' = [stored EXCEPT ![s] = stored'[s]]
        <4>1. versions[op[r].of].data \in Content
          BY <2>1, VersionFacts
        <4>2. stored[s] # None =>
                [stored[s] EXCEPT !.content = versions[op[r].of].data] \in V!Row
          BY <1>1, <1>3, <1>4, <4>1
        <4>3. stored' = IF stored[s] = None THEN stored
                ELSE [stored EXCEPT ![s] = [stored[s] EXCEPT !.content = versions[op[r].of].data]]
          BY <2>1, <3>1 DEF V!Restored
        <4>4. QED
          BY <1>1, <1>3, <4>2, <4>3
      <3>4. Elsewhere(s)
        BY <1>1, <3>2, <3>3 DEF Elsewhere
      <3>5. QED
        BY <1>1, <1>2, <1>15, <3>2, <3>3, <3>4 DEF V!ActivateVersion, V!Goto, Step
    <2>4. QED
      BY <2>2, <2>3
  <1>16. CASE V!DeleteVersion(r)
    <2>1. op[r].of \in DOMAIN versions /\ s = versions[op[r].of].of
      BY <1>3, <1>16 DEF V!DeleteVersion
    <2>2. versions' \in Seq(V!Version) /\ Elsewhere(s)
      BY <1>16, <2>1, DeleteIs DEF V!DeleteVersion, Elsewhere
    <2>3. QED
      BY <1>1, <1>2, <1>16, <2>2 DEF V!DeleteVersion, V!Goto, Step
  <1>17. CASE V!Fail(r)
    BY <1>1, <1>2, <1>6, <1>17 DEF V!Fail, V!Goto, V!Hold, Step
  <1>18. QED
    BY <1>7, <1>8, <1>9, <1>10, <1>11, <1>12, <1>13, <1>14, <1>15, <1>16, <1>17

LEMMA AskIs ==
    ASSUME V!TypeOK, NEW r \in Request, V!Ask(r)
    PROVE  \E o \in V!Op :
             /\ op' = [op EXCEPT ![r] = o] /\ place[r] = "idle"
             /\ place' = [place EXCEPT ![r] = IF o.kind = "label" THEN "load" ELSE "begin"]
             /\ crossed' = crossed \cup
                  {V!Subject(o) : q \in {p \in Request : V!Under(p) /\ V!Subject(op[p]) = V!Subject(o)}}
             /\ UNCHANGED <<stored, versions, held, failed>>
  BY DEF V!Ask, V!Goto, V!FirstPlace

LEMMA VersionTypeStep ==
    ASSUME V!TypeOK, Numbered, \A r \in Request : Asked(r), V!Next
    PROVE  V!TypeOK' /\ \A r \in Request : Asked(r)'
  <1>1. /\ place \in [Request -> {"idle", "begin", "save", "load", "commit", "write", "done"}]
        /\ held \in [Request -> V!Row \cup Content \cup {None}]
        /\ op \in [Request -> V!Op \cup {None}]
        /\ crossed \subseteq V!Entity /\ failed \subseteq V!Entity
        /\ stored \in [V!Entity -> V!Row \cup {None}] /\ versions \in Seq(V!Version)
    BY DEF V!TypeOK
  <1>2. ASSUME NEW r \in Request, V!Ask(r)
        PROVE  V!TypeOK' /\ \A q \in Request : Asked(q)'
    <2>1. PICK o \in V!Op :
             /\ op' = [op EXCEPT ![r] = o] /\ place[r] = "idle"
             /\ place' = [place EXCEPT ![r] = IF o.kind = "label" THEN "load" ELSE "begin"]
             /\ crossed' = crossed \cup
                  {V!Subject(o) : q \in {p \in Request : V!Under(p) /\ V!Subject(op[p]) = V!Subject(o)}}
             /\ UNCHANGED <<stored, versions, held, failed>>
      BY <1>2, AskIs
    <2>2. V!Op' = V!Op
      BY <2>1 DEF V!Op
    <2>3. crossed' \subseteq V!Entity
      BY <1>1, <2>1, OpFacts
    <2>4. V!TypeOK'
      BY <1>1, <2>1, <2>2, <2>3 DEF V!TypeOK
    <2>5. \A q \in Request : Asked(q)'
      BY <1>1, <2>1, <2>2, OpFacts DEF Asked, V!Under
    <2>6. QED
      BY <2>4, <2>5
  <1>3. ASSUME NEW r \in Request, Step(r)
        PROVE  V!TypeOK' /\ \A q \in Request : Asked(q)'
    <2>1. V!Op \subseteq V!Op'
      BY <1>3 DEF Step, Elsewhere, V!Op
    <2>2. V!Subject(op[r]) \in V!Entity /\ op[r] \in V!Op
      BY <1>3, OpFacts DEF Step, Asked
    <2>3. V!TypeOK'
      BY <1>1, <1>3, <2>1, <2>2 DEF Step, V!TypeOK
    <2>4. \A q \in Request : Asked(q)'
      BY <1>1, <1>3, <2>1 DEF Step, Asked, V!Under
    <2>5. QED
      BY <2>3, <2>4
  <1>4. QED
    BY <1>2, <1>3, StepIs DEF V!Next

\* A step leaves the numbers that there are, and gives one that is new.
LEMMA NumberStep ==
    ASSUME V!TypeOK, Numbered, \A r \in Request : Asked(r), V!NumbersUnique, OneActive, V!Next
    PROVE  Numbered' /\ V!NumbersUnique' /\ OneActive'
  <1>1. /\ Len(versions) \in Nat /\ DOMAIN versions = 1 .. Len(versions)
        /\ \A i \in DOMAIN versions : versions[i].of \in V!Entity /\ versions[i].number \in Nat
    BY VersionFacts
  <1>2. ASSUME DOMAIN versions' = DOMAIN versions,
               \A i \in DOMAIN versions :
                 /\ versions'[i].of = versions[i].of /\ versions'[i].number = versions[i].number
                 /\ versions'[i].state # "deleted" => versions[i].state # "deleted"
        PROVE  Numbered' /\ V!NumbersUnique'
    BY <1>2 DEF Numbered, V!NumbersUnique, V!VersionsOf
  <1>3. ASSUME NEW r \in Request, V!CommitVersion(r)
        PROVE  Numbered' /\ V!NumbersUnique' /\ OneActive'
    <2>1. op[r] \in V!Op /\ op[r].kind \in {"post", "put", "label"} /\ held[r] \in Content
      BY <1>3 DEF V!CommitVersion, Asked, V!Under
    <2>2. PICK e \in V!Entity, n \in Nat : e = op[r].of /\ n = Len(versions) + 1
      BY <1>1, <2>1, OpFacts
    <2>3. /\ DOMAIN versions' = 1 .. n /\ Elsewhere(e)
          /\ \A i \in V!VersionsOf(e) : versions'[i].state = "inactive"
          /\ \A i \in DOMAIN versions \ V!VersionsOf(e) : versions'[i].state = versions[i].state
          /\ versions'[n].of = e /\ versions'[n].number = V!NextNumber(e)
          /\ versions'[n].state = "active"
      <3>1. /\ UNCHANGED stored
            /\ versions' = Append(V!Deactivated(e), [of |-> e, number |-> V!NextNumber(e),
                                                     data |-> held[r], state |-> "active"])
        BY <1>3, <2>2 DEF V!CommitVersion
      <3>2. /\ versions' \in Seq(V!Version) /\ Elsewhere(e)
            /\ Len(versions') = Len(versions) + 1
            /\ \A i \in V!VersionsOf(e) : versions'[i].state = "inactive"
            /\ \A i \in DOMAIN versions \ V!VersionsOf(e) : versions'[i].state = versions[i].state
            /\ LET v == versions'[Len(versions) + 1] IN
               v.of = e /\ v.number = V!NextNumber(e) /\ v.data = held[r] /\ v.state = "active"
        BY <2>1, <2>2, <3>1, CommitIs
      <3>3. DOMAIN versions' = 1 .. Len(versions')
        BY <3>2
      <3>4. QED
        BY <2>2, <3>2, <3>3
    <2>4. /\ V!NextNumber(e) \in 1 .. n
          /\ \A i \in V!VersionsOf(e) : versions[i].number < V!NextNumber(e)
      BY <2>2, NextNumberIsNew
    <2>5. Numbered'
      BY <1>1, <2>2, <2>3, <2>4 DEF Numbered, Elsewhere
    <2>6. /\ \A x \in V!Entity \ {e} : V!VersionsOf(x)' = V!VersionsOf(x)
          /\ V!VersionsOf(e)' = V!VersionsOf(e) \cup {n}
          /\ \A i \in DOMAIN versions : versions'[i].number = versions[i].number
      <3>1. \A i \in DOMAIN versions :
              /\ versions'[i].of = versions[i].of /\ versions'[i].number = versions[i].number
              /\ versions'[i].state = "deleted" <=> versions[i].state = "deleted"
        BY <2>3 DEF V!VersionsOf, Elsewhere
      <3>2. DOMAIN versions' = DOMAIN versions \cup {n} /\ n \notin DOMAIN versions
        BY <1>1, <2>2, <2>3
      <3>3. ASSUME NEW x \in V!Entity
            PROVE  V!VersionsOf(x)' = V!VersionsOf(x) \cup (IF x = e THEN {n} ELSE {})
        BY <2>3, <3>1, <3>2 DEF V!VersionsOf
      <3>4. QED
        BY <2>2, <3>1, <3>3
    <2>7. V!NumbersUnique'
      BY <1>1, <2>2, <2>3, <2>4, <2>6 DEF V!NumbersUnique, V!VersionsOf
    <2>8. /\ \A x \in V!Entity \ {e} : V!ActiveOf(x)' = V!ActiveOf(x)
          /\ V!ActiveOf(e)' = {n}
      BY <1>1, <2>2, <2>3, <2>6 DEF V!ActiveOf, V!VersionsOf, Elsewhere
    <2>9. OneActive'
      <3>1. ASSUME NEW x \in V!Entity, NEW i \in V!ActiveOf(x)', NEW j \in V!ActiveOf(x)'
            PROVE  i = j
        BY <2>8 DEF OneActive
      <3>2. QED
        BY <3>1 DEF OneActive
    <2>10. QED
      BY <2>5, <2>7, <2>9
  <1>4. ASSUME NEW r \in Request, V!ActivateVersion(r), ~UNCHANGED versions
        PROVE  Numbered' /\ V!NumbersUnique' /\ OneActive'
    <2> DEFINE k == op[r].of
               e == versions[k].of
    <2>1. k \in DOMAIN versions /\ e \in V!Entity
      <3>1. op[r] \in V!Op /\ op[r].kind = "activate"
        BY <1>4 DEF V!ActivateVersion, Asked, V!Under
      <3>2. QED
        BY <3>1, OpFacts, <1>1
    <2>2. /\ versions[k].state # "deleted"
          /\ versions' = [V!Deactivated(e) EXCEPT ![k].state = "active"]
      BY <1>4 DEF V!ActivateVersion
    <2> HIDE DEF k
    <2>3. /\ DOMAIN versions' = DOMAIN versions
          /\ \A i \in DOMAIN versions :
               /\ versions'[i].of = versions[i].of /\ versions'[i].number = versions[i].number
               /\ versions'[i].state = IF i = k THEN "active"
                    ELSE IF i \in V!VersionsOf(e) THEN "inactive" ELSE versions[i].state
      BY <2>1, <2>2, ActivateIs
    <2>4. Numbered' /\ V!NumbersUnique'
      BY <1>2, <2>2, <2>3 DEF V!VersionsOf
    <2>5. \A x \in V!Entity : V!ActiveOf(x)' = IF x = e THEN {k} ELSE V!ActiveOf(x)
      BY <2>1, <2>2, <2>3 DEF V!ActiveOf, V!VersionsOf
    <2>6. OneActive'
      BY <2>5 DEF OneActive
    <2>7. QED
      BY <2>4, <2>6
  <1>5. ASSUME NEW r \in Request, V!DeleteVersion(r)
        PROVE  Numbered' /\ V!NumbersUnique' /\ OneActive'
    <2> DEFINE k == op[r].of
    <2>1. k \in DOMAIN versions /\ versions' = [versions EXCEPT ![k].state = "deleted"]
      <3>1. op[r] \in V!Op /\ op[r].kind = "drop"
        BY <1>5 DEF V!DeleteVersion, Asked, V!Under
      <3>2. QED
        BY <1>5, <3>1, OpFacts DEF V!DeleteVersion
    <2> HIDE DEF k
    <2>2. /\ DOMAIN versions' = DOMAIN versions
          /\ \A i \in DOMAIN versions :
               /\ versions'[i].of = versions[i].of /\ versions'[i].number = versions[i].number
               /\ versions'[i].state = IF i = k THEN "deleted" ELSE versions[i].state
      BY <2>1, DeleteIs
    <2>3. Numbered' /\ V!NumbersUnique'
      BY <1>2, <2>2
    <2>4. \A x \in V!Entity : V!ActiveOf(x)' \subseteq V!ActiveOf(x)
      BY <2>2 DEF V!ActiveOf, V!VersionsOf
    <2>5. OneActive'
      BY <2>4 DEF OneActive
    <2>6. QED
      BY <2>3, <2>5
  <1>6. CASE UNCHANGED versions
    BY <1>6 DEF Numbered, V!NumbersUnique, OneActive, V!ActiveOf, V!VersionsOf
  <1>7. \/ UNCHANGED versions
        \/ \E r \in Request : V!CommitVersion(r) \/ V!ActivateVersion(r) \/ V!DeleteVersion(r)
    BY DEF V!Next, V!Ask, V!PostTemplate, V!ReadTemplate, V!SaveTemplate, V!EnableTemplate,
           V!RemoveTemplate, V!LoadEntity, V!ReadVersion, V!Fail
  <1>8. QED
    BY <1>3, <1>4, <1>5, <1>6, <1>7

\* What a step leaves: the subjects of all requests, and of the other entities
\* the versions and what is in the row.
LEMMA StepLeaves ==
    ASSUME V!TypeOK, \A r \in Request : Asked(r), NEW r \in Request, Step(r)
    PROVE  /\ \A q \in Request : V!Under(q)' => V!Under(q) /\ V!Subject(op[q])' = V!Subject(op[q])
           /\ \A q \in Request \ {r} :
                /\ (V!Under(q)' <=> V!Under(q)) /\ place'[q] = place[q]
                /\ held'[q] = held[q] /\ op'[q] = op[q]
           /\ \A e \in V!Entity \ {V!Subject(op[r])} :
                /\ V!VersionsOf(e)' = V!VersionsOf(e) /\ V!ActiveOf(e)' = V!ActiveOf(e)
                /\ Matches(e) => Matches(e)'
  <1>1. /\ place \in [Request -> {"idle", "begin", "save", "load", "commit", "write", "done"}]
        /\ held \in [Request -> V!Row \cup Content \cup {None}]
        /\ op \in [Request -> V!Op \cup {None}]
    BY DEF V!TypeOK
  <1>2. \A q \in Request \ {r} :
          /\ (V!Under(q)' <=> V!Under(q)) /\ place'[q] = place[q]
          /\ held'[q] = held[q] /\ op'[q] = op[q]
    BY <1>1 DEF Step, V!Under
  <1>3. ASSUME NEW q \in Request, V!Under(q)'
        PROVE  V!Under(q) /\ V!Subject(op[q])' = V!Subject(op[q])
    <2>1. V!Under(q) /\ op'[q] = op[q] /\ op[q] \in V!Op
      BY <1>2, <1>3 DEF Step, Asked, V!Under
    <2>2. CASE op[q].of \in V!Entity
      BY <2>1, <2>2 DEF V!Subject
    <2>3. CASE op[q].of \notin V!Entity
      <3>1. op[q].of \in DOMAIN versions
        BY <2>1, <2>3, OpFacts
      <3>2. QED
        BY <2>1, <2>3, <3>1 DEF V!Subject, Step, Elsewhere
    <2>4. QED
      BY <2>2, <2>3
  <1>4. ASSUME NEW e \in V!Entity, e # V!Subject(op[r])
        PROVE  /\ V!VersionsOf(e)' = V!VersionsOf(e) /\ V!ActiveOf(e)' = V!ActiveOf(e)
               /\ Matches(e) => Matches(e)'
    <2>1. Elsewhere(V!Subject(op[r]))
      BY DEF Step
    <2>2. V!VersionsOf(e)' = V!VersionsOf(e)
      BY <1>4, <2>1 DEF Elsewhere, V!VersionsOf
    <2>3. V!ActiveOf(e)' = V!ActiveOf(e)
      BY <1>4, <2>1, <2>2 DEF Elsewhere, V!ActiveOf, V!VersionsOf
    <2>4. \A i \in V!ActiveOf(e) : versions'[i].data = versions[i].data
      BY <2>1 DEF Elsewhere, V!ActiveOf, V!VersionsOf
    <2>5. (stored[e] = None <=> stored'[e] = None)
          /\ (stored[e] # None => stored'[e].content = stored[e].content)
      BY <1>4, <2>1 DEF Elsewhere
    <2>6. QED
      BY <2>2, <2>3, <2>4, <2>5 DEF Matches
  <1>5. QED
    BY <1>2, <1>3, <1>4

\* A step keeps the books if it keeps those of the entity it works on.
LEMMA StepBooks ==
    ASSUME V!TypeOK, \A r \in Request : Asked(r), \A e \in V!Entity \ crossed : Booked(e),
           NEW r \in Request, Step(r), NEW s \in V!Entity, s = V!Subject(op[r]),
           s \notin crossed /\ s \notin failed' =>
             IF V!Under(r)' THEN Working(r, s)' ELSE Matches(s)'
    PROVE  \A e \in V!Entity \ crossed' : Booked(e)'
  <1>1. /\ \A q \in Request : V!Under(q)' => V!Under(q) /\ V!Subject(op[q])' = V!Subject(op[q])
        /\ \A q \in Request \ {r} :
             /\ (V!Under(q)' <=> V!Under(q)) /\ place'[q] = place[q]
             /\ held'[q] = held[q] /\ op'[q] = op[q]
        /\ \A e \in V!Entity \ {s} :
             /\ V!VersionsOf(e)' = V!VersionsOf(e) /\ V!ActiveOf(e)' = V!ActiveOf(e)
             /\ Matches(e) => Matches(e)'
    BY StepLeaves
  <1>2. /\ crossed' = crossed /\ failed' \in {failed, failed \cup {s}}
        /\ V!Under(r) /\ Works(r, s)
    BY DEF Step, Works
  <1>3. \A q \in Request : \A e : Works(q, e)' => Works(q, e)
    BY <1>1, <1>2 DEF Works
  <1>4. \A q \in Request \ {r} : \A e : Works(q, e)' <=> Works(q, e)
    BY <1>1, <1>2 DEF Works
  <1>5. ASSUME NEW e \in V!Entity \ crossed, e # s
        PROVE  Booked(e)'
    <2>1. ~Works(r, e) /\ ~Works(r, e)'
      BY <1>2, <1>3, <1>5 DEF Works
    <2>2. ASSUME NEW q \in Request \ {r}, Works(q, e), Working(q, e)
          PROVE  Working(q, e)'
      <3>1. Elsewhere(s)
        BY DEF Step
      <3>2. place[q] = "write" /\ op[q].kind = "drop" =>
              op[q].of \in DOMAIN versions /\ versions[op[q].of].of = e
        BY <2>2, OpFacts DEF Works, Asked
      <3>3. (stored[e] = None <=> stored'[e] = None)
            /\ (stored[e] # None => stored'[e].content = stored[e].content)
        BY <1>5, <3>1 DEF Elsewhere
      <3>4. place[q] = "write" /\ op[q].kind = "drop" =>
              versions'[op[q].of].state = versions[op[q].of].state
        BY <1>5, <3>1, <3>2 DEF Elsewhere
      <3>5. QED
        BY <1>1, <1>2, <1>5, <2>2, <3>3, <3>4 DEF Working
    <2>3. e \notin failed' => e \notin failed
      BY <1>2
    <2>4. QED
      BY <1>1, <1>4, <1>5, <2>1, <2>2, <2>3 DEF Booked
  <1>6. ASSUME s \notin crossed PROVE Booked(s)'
    <2>1. \A q \in Request \ {r} : ~Works(q, s) /\ ~Works(q, s)'
      BY <1>2, <1>4, <1>6 DEF Booked
    <2>2. V!Under(r)' <=> Works(r, s)'
      BY <1>1, <1>2 DEF Works
    <2>3. QED
      BY <1>6, <2>1, <2>2 DEF Booked
  <1>7. QED
    BY <1>2, <1>5, <1>6

LEMMA BookedStep ==
    ASSUME V!TypeOK, Numbered, \A r \in Request : Asked(r),
           \A e \in V!Entity \ crossed : Booked(e),
           NEW r \in Request, Step(r),
           \/ V!PostTemplate(r) \/ V!ReadTemplate(r) \/ V!SaveTemplate(r)
           \/ V!EnableTemplate(r) \/ V!RemoveTemplate(r) \/ V!LoadEntity(r)
           \/ V!CommitVersion(r) \/ V!ReadVersion(r) \/ V!ActivateVersion(r)
           \/ V!DeleteVersion(r) \/ V!Fail(r)
    PROVE  \A e \in V!Entity \ crossed' : Booked(e)'
  <1>1. /\ stored \in [V!Entity -> V!Row \cup {None}] /\ versions \in Seq(V!Version)
        /\ place \in [Request -> {"idle", "begin", "save", "load", "commit", "write", "done"}]
        /\ held \in [Request -> V!Row \cup Content \cup {None}]
        /\ \A e \in V!Entity : stored[e] # None => stored[e] \in V!Row
    BY DEF V!TypeOK
  <1>2. op[r] \in V!Op /\ V!Under(r) /\ (place'[r] # "done" => op' = op)
    BY DEF Step, Asked
  <1>3. PICK s \in V!Entity :
          /\ s = V!Subject(op[r])
          /\ op[r].kind \in {"post", "put", "disable", "enable", "remove", "label"} => s = op[r].of
          /\ op[r].kind \in {"activate", "drop"} =>
               op[r].of \in DOMAIN versions /\ s = versions[op[r].of].of
    BY <1>2, OpFacts
  <1> DEFINE Local == IF V!Under(r)' THEN Working(r, s)' ELSE Matches(s)'
  <1> SUFFICES ASSUME s \notin crossed, s \notin failed' PROVE Local
    BY <1>3, StepBooks
  <1>4. Working(r, s)
    BY <1>2, <1>3 DEF Booked, Works, Step
  <1>5. /\ \A x \in V!Row, b \in BOOLEAN : [x EXCEPT !.active = b].content = x.content
        /\ \A x \in V!Row, c \in Content : [x EXCEPT !.content = c].content = c
    BY DEF V!Row
  <1>6. place'[r] = "done" <=> ~V!Under(r)'
    BY DEF Step, V!Under
  <1>7. UNCHANGED versions /\ (stored'[s] = None \/ (stored[s] # None /\ stored'[s].content = stored[s].content))
          => (Matches(s) => Matches(s)')
    BY DEF Matches, V!VersionsOf, V!ActiveOf
  <1>8. CASE V!PostTemplate(r)
    BY <1>1, <1>6, <1>8 DEF V!PostTemplate, V!Goto, Working
  <1>9. CASE V!ReadTemplate(r)
    BY <1>1, <1>3, <1>4, <1>6, <1>7, <1>9 DEF V!ReadTemplate, V!Goto, V!Hold, Working, Matches
  <1>10. CASE V!SaveTemplate(r)
    <2>1. op[r].kind = "put" => place'[r] = "load"
      BY <1>1, <1>10 DEF V!SaveTemplate, V!Goto
    <2>2. CASE op[r].kind = "disable"
      <3>1. /\ place[r] = "save" /\ place'[r] = "done" /\ UNCHANGED versions
            /\ stored' = [stored EXCEPT ![s] = [held[r] EXCEPT !.active = FALSE]]
            /\ held[r] \in V!Row
        BY <1>1, <1>3, <1>10, <2>2 DEF V!SaveTemplate, V!Goto, Asked
      <3>2. stored'[s].content = stored[s].content /\ stored[s] # None
        BY <1>1, <1>4, <1>5, <3>1 DEF Working
      <3>3. QED
        BY <1>4, <1>6, <1>7, <3>1, <3>2 DEF Working
    <2>3. QED
      BY <1>6, <1>10, <2>1, <2>2 DEF V!SaveTemplate, Asked, Working
  <1>11. CASE V!EnableTemplate(r)
    <2>1. stored'[s] = stored[s]
          \/ (stored[s] # None /\ stored'[s].content = stored[s].content)
      <3>1. \A b \in BOOLEAN : stored[s] # None => [stored[s] EXCEPT !.active = b].content = stored[s].content
        BY <1>1, <1>5
      <3>2. (s = op[r].of) \in BOOLEAN
        OBVIOUS
      <3>3. \/ stored'[s] = stored[s]
            \/ stored[s] # None /\ stored'[s] = [stored[s] EXCEPT !.active = (s = op[r].of)]
        BY <1>1, <1>11 DEF V!EnableTemplate
      <3>4. QED
        BY <3>1, <3>2, <3>3
    <2>2. Matches(s)
      BY <1>4, <1>11 DEF V!EnableTemplate, Working
    <2>3. UNCHANGED versions /\ place'[r] = "done"
      BY <1>1, <1>11 DEF V!EnableTemplate, V!Goto
    <2>4. QED
      BY <1>6, <1>7, <2>1, <2>2, <2>3
  <1>12. CASE V!RemoveTemplate(r)
    BY <1>1, <1>3, <1>6, <1>12 DEF V!RemoveTemplate, V!Goto, Matches
  <1>13. CASE V!LoadEntity(r)
    <2>1. op[r].of = s
      BY <1>3, <1>13 DEF V!LoadEntity, Asked
    <2>2. CASE stored[s] = None
      BY <1>1, <1>6, <1>13, <2>1, <2>2 DEF V!LoadEntity, V!Goto, Matches
    <2>3. CASE stored[s] # None
      BY <1>1, <1>6, <1>13, <2>1, <2>3 DEF V!LoadEntity, V!Goto, V!Hold, V!Serialized, Working
    <2>4. QED
      BY <2>2, <2>3
  <1>14. CASE V!CommitVersion(r)
    <2>1. op[r].kind \in {"post", "put", "label"} /\ held[r] \in Content /\ place[r] = "commit"
      BY <1>14 DEF V!CommitVersion, Asked
    <2>2. /\ UNCHANGED stored /\ place'[r] = "done"
          /\ versions' = Append(V!Deactivated(s), [of |-> s, number |-> V!NextNumber(s),
                                                   data |-> held[r], state |-> "active"])
      BY <1>1, <1>3, <1>14, <2>1 DEF V!CommitVersion, V!Goto
    <2>3. PICK n : /\ versions'[n].of = s /\ versions'[n].data = held[r]
                   /\ versions'[n].state = "active" /\ n \in DOMAIN versions'
      <3>1. /\ versions' \in Seq(V!Version) /\ Len(versions)' = Len(versions) + 1
            /\ LET v == versions'[Len(versions) + 1] IN
               v.of = s /\ v.number = V!NextNumber(s) /\ v.data = held[r] /\ v.state = "active"
        BY <2>1, <2>2, CommitIs
      <3>2. Len(versions) + 1 \in DOMAIN versions'
        BY <1>1, <3>1
      <3>3. QED
        BY <3>1, <3>2
    <2>4. n \in V!ActiveOf(s)'
      BY <2>3 DEF V!ActiveOf, V!VersionsOf
    <2>5. QED
      BY <1>4, <1>6, <2>1, <2>2, <2>3, <2>4 DEF Working, Matches
  <1>15. CASE V!ReadVersion(r)
    <2>1. /\ UNCHANGED <<stored, versions>> /\ place[r] = "begin"
          /\ place'[r] = "write" /\ op[r].kind = "drop" => versions[op[r].of].state # "active"
          /\ place'[r] \in {"write", "done"}
      BY <1>1, <1>15 DEF V!ReadVersion, V!Goto
    <2>2. Matches(s)'
      BY <1>4, <1>7, <2>1 DEF Working, Matches
    <2>3. QED
      BY <1>2, <1>6, <2>1, <2>2 DEF Working
  <1>16. CASE V!ActivateVersion(r)
    <2>1. /\ op[r].of \in DOMAIN versions /\ s = versions[op[r].of].of
          /\ place[r] = "write" /\ place'[r] = "done"
      BY <1>1, <1>3, <1>16 DEF V!ActivateVersion, V!Goto
    <2>2. CASE UNCHANGED <<stored, versions>>
      BY <1>4, <1>6, <1>7, <2>1, <2>2 DEF Working, Matches
    <2>3. CASE ~UNCHANGED <<stored, versions>>
      <3>1. PICK k \in DOMAIN versions : k = op[r].of
        BY <2>1
      <3>2. /\ versions[k].state # "deleted"
            /\ versions' = [V!Deactivated(versions[k].of) EXCEPT ![k].state = "active"]
            /\ stored' = V!Restored(versions[k])
        BY <1>16, <2>1, <2>3, <3>1 DEF V!ActivateVersion
      <3>3. /\ DOMAIN versions' = DOMAIN versions /\ versions'[k].of = s
            /\ versions'[k].state = "active" /\ versions'[k].data = versions[k].data
        BY <2>1, <3>1, <3>2, ActivateIs
      <3>4. k \in V!ActiveOf(s)'
        BY <3>3 DEF V!ActiveOf, V!VersionsOf
      <3>5. versions[k].data \in Content
        BY VersionFacts
      <3>6. stored'[s] = None \/ stored'[s].content = versions[k].data
        <4>1. stored' = IF stored[s] = None THEN stored
                ELSE [stored EXCEPT ![s] = [stored[s] EXCEPT !.content = versions[k].data]]
          BY <2>1, <3>1, <3>2 DEF V!Restored
        <4>2. stored[s] # None =>
                [stored[s] EXCEPT !.content = versions[k].data].content = versions[k].data
          BY <1>1, <1>5, <3>5
        <4>3. QED
          BY <1>1, <4>1, <4>2
      <3>7. QED
        BY <1>6, <2>1, <3>3, <3>4, <3>6 DEF Matches
    <2>4. QED
      BY <2>2, <2>3
  <1>17. CASE V!DeleteVersion(r)
    <2>1. PICK k \in DOMAIN versions :
            /\ k = op[r].of /\ s = versions[k].of /\ op[r].kind = "drop"
            /\ place[r] = "write" /\ place'[r] = "done" /\ UNCHANGED stored
            /\ versions' = [versions EXCEPT ![k].state = "deleted"]
      BY <1>1, <1>3, <1>17 DEF V!DeleteVersion, V!Goto
    <2>2. versions[k].state # "active" /\ Matches(s)
      BY <1>4, <2>1 DEF Working
    <2>3. /\ DOMAIN versions' = DOMAIN versions
          /\ \A i \in DOMAIN versions :
               /\ versions'[i].of = versions[i].of /\ versions'[i].data = versions[i].data
               /\ versions'[i].state = IF i = k THEN "deleted" ELSE versions[i].state
      BY <2>1, DeleteIs
    <2>4. V!ActiveOf(s)' = V!ActiveOf(s) /\ V!VersionsOf(s)' \subseteq V!VersionsOf(s)
      BY <2>2, <2>3 DEF V!ActiveOf, V!VersionsOf
    <2>5. \A i \in V!ActiveOf(s) : versions'[i].data = versions[i].data
      BY <2>3 DEF V!ActiveOf, V!VersionsOf
    <2>6. QED
      BY <1>6, <2>1, <2>2, <2>4, <2>5 DEF Matches
  <1>18. CASE V!Fail(r)
    BY <1>3, <1>18 DEF V!Fail
  <1>19. QED
    BY <1>8, <1>9, <1>10, <1>11, <1>12, <1>13, <1>14, <1>15, <1>16, <1>17, <1>18

\* A request that begins on an entity nobody works on finds the books in order;
\* where another works, the two have crossed.
LEMMA BookedAsk ==
    ASSUME V!TypeOK, \A r \in Request : Asked(r), \A e \in V!Entity \ crossed : Booked(e),
           NEW r \in Request, V!Ask(r)
    PROVE  \A e \in V!Entity \ crossed' : Booked(e)'
  <1>1. place \in [Request -> {"idle", "begin", "save", "load", "commit", "write", "done"}]
        /\ op \in [Request -> V!Op \cup {None}]
    BY DEF V!TypeOK
  <1>2. PICK o \in V!Op :
          /\ op' = [op EXCEPT ![r] = o] /\ place[r] = "idle"
          /\ place' = [place EXCEPT ![r] = IF o.kind = "label" THEN "load" ELSE "begin"]
          /\ crossed' = crossed \cup
               {V!Subject(o) : q \in {p \in Request : V!Under(p) /\ V!Subject(op[p]) = V!Subject(o)}}
          /\ UNCHANGED <<stored, versions, held, failed>>
    BY AskIs
  <1>3. PICK s \in V!Entity : s = V!Subject(o)
    BY OpFacts
  <1>4. /\ place'[r] \in {"begin", "load"} /\ ~V!Under(r) /\ V!Under(r)'
        /\ op'[r] = o
        /\ \A q \in Request \ {r} : place'[q] = place[q] /\ op'[q] = op[q]
    BY <1>1, <1>2 DEF V!Under
  <1>5. /\ V!Subject(op[r])' = s
        /\ \A q \in Request \ {r} : V!Subject(op[q])' = V!Subject(op[q])
    BY <1>2, <1>3, <1>4 DEF V!Subject
  <1>6. /\ \A q \in Request \ {r} : \A e : Works(q, e)' <=> Works(q, e)
        /\ \A e : ~Works(r, e) /\ (Works(r, e)' <=> e = s)
    BY <1>4, <1>5 DEF Works, V!Under
  <1>7. \A e : Matches(e)' <=> Matches(e)
    BY <1>2 DEF Matches, V!VersionsOf, V!ActiveOf
  <1>8. \A e : \A q \in Request \ {r} : Working(q, e)' <=> Working(q, e)
    BY <1>2, <1>4, <1>7 DEF Working
  <1>9. ASSUME NEW e \in V!Entity \ crossed', e # s
        PROVE  Booked(e)'
    <2>1. Booked(e) /\ failed' = failed
      BY <1>2, <1>9
    <2>2. QED
      BY <1>6, <1>7, <1>8, <1>9, <2>1 DEF Booked
  <1>10. ASSUME s \notin crossed' PROVE Booked(s)'
    <2>1. \A q \in Request : ~Works(q, s)
      BY <1>2, <1>3, <1>10 DEF Works
    <2>2. Booked(s) /\ failed' = failed
      BY <1>2, <1>10
    <2>3. s \notin failed => Working(r, s)'
      BY <1>4, <1>7, <2>1, <2>2 DEF Booked, Working
    <2>4. QED
      BY <1>6, <2>1, <2>2, <2>3 DEF Booked
  <1>11. QED
    BY <1>9, <1>10

LEMMA VersionStep ==
    ASSUME VersionInv, [V!Next]_(V!versionVars)
    PROVE  VersionInv'
  <1>1. CASE V!Next
    <2>1. V!TypeOK' /\ \A r \in Request : Asked(r)'
      BY <1>1, VersionTypeStep DEF VersionInv
    <2>2. Numbered' /\ V!NumbersUnique' /\ OneActive'
      BY <1>1, NumberStep DEF VersionInv
    <2>3. \A e \in V!Entity \ crossed' : Booked(e)'
      <3>1. PICK r \in Request :
              \/ V!Ask(r)
              \/ V!PostTemplate(r) \/ V!ReadTemplate(r) \/ V!SaveTemplate(r)
              \/ V!EnableTemplate(r) \/ V!RemoveTemplate(r) \/ V!LoadEntity(r)
              \/ V!CommitVersion(r) \/ V!ReadVersion(r) \/ V!ActivateVersion(r)
              \/ V!DeleteVersion(r) \/ V!Fail(r)
        BY <1>1 DEF V!Next
      <3>2. V!TypeOK /\ Numbered /\ (\A q \in Request : Asked(q))
            /\ \A e \in V!Entity \ crossed : Booked(e)
        BY DEF VersionInv
      <3>3. CASE V!Ask(r)
        BY <3>2, <3>3, BookedAsk
      <3>4. CASE ~V!Ask(r)
        <4>1. Step(r)
          BY <3>1, <3>2, <3>4, StepIs
        <4>2. QED
          BY <3>1, <3>2, <3>4, <4>1, BookedStep
      <3>5. QED
        BY <3>3, <3>4
    <2>4. QED
      BY <2>1, <2>2, <2>3 DEF VersionInv
  <1>2. CASE UNCHANGED V!versionVars
    <2>1. UNCHANGED <<stored, versions, place, op, held, crossed, failed>>
      BY <1>2 DEF V!versionVars
    <2>2. V!TypeOK' /\ \A r \in Request : Asked(r)'
      BY <2>1 DEF VersionInv, V!TypeOK, V!Op, Asked, V!Under
    <2>3. Numbered' /\ V!NumbersUnique' /\ OneActive'
      BY <2>1 DEF VersionInv, Numbered, V!NumbersUnique, OneActive, V!ActiveOf, V!VersionsOf
    <2>4. \A e : Matches(e)' <=> Matches(e)
      BY <2>1 DEF Matches, V!VersionsOf, V!ActiveOf
    <2>5. \A q \in Request : \A e : (Works(q, e)' <=> Works(q, e)) /\ (Working(q, e)' <=> Working(q, e))
      BY <2>1, <2>4 DEF Works, V!Under, V!Subject, Working
    <2>6. \A e \in V!Entity \ crossed' : Booked(e)'
      BY <2>1, <2>4, <2>5 DEF VersionInv, Booked
    <2>7. QED
      BY <2>2, <2>3, <2>6 DEF VersionInv
  <1>3. QED
    BY <1>1, <1>2

LEMMA VersionInit == V!Init => VersionInv
  <1> SUFFICES ASSUME V!Init PROVE VersionInv
    OBVIOUS
  <1>1. versions = <<>> /\ \A r \in Request : place[r] = "idle" /\ op[r] = None /\ held[r] = None
    BY DEF V!Init
  <1>2. DOMAIN versions = {} /\ versions \in Seq(V!Version)
    BY <1>1
  <1>3. V!TypeOK
    BY <1>2 DEF V!Init, V!TypeOK
  <1>4. \A r \in Request : Asked(r)
    BY <1>1 DEF Asked, V!Under
  <1>5. \A e : V!VersionsOf(e) = {} /\ V!ActiveOf(e) = {}
    BY <1>2 DEF V!VersionsOf, V!ActiveOf
  <1>6. Numbered /\ V!NumbersUnique /\ OneActive
    BY <1>2, <1>5 DEF Numbered, V!NumbersUnique, OneActive
  <1>7. \A e \in V!Entity : Booked(e)
    BY <1>1, <1>5 DEF Booked, Works, V!Under, Matches
  <1>8. QED
    BY <1>3, <1>4, <1>6, <1>7 DEF VersionInv

LEMMA VersionSafe == VersionInv => V!VersionsSound
  <1> SUFFICES ASSUME VersionInv PROVE V!VersionsSound
    OBVIOUS
  <1>1. ASSUME NEW e \in V!Entity PROVE V!Cardinality(V!ActiveOf(e)) <= 1
    <2>1. \A i, j \in V!ActiveOf(e) : i = j
      BY DEF VersionInv, OneActive
    <2>2. Cardinality(V!ActiveOf(e)) <= 1
      BY <2>1, OneAtMost
    <2>3. V!Cardinality(V!ActiveOf(e)) = Cardinality(V!ActiveOf(e))
      BY DEF V!Cardinality, Cardinality
    <2>4. QED
      BY <2>2, <2>3
  <1>2. ASSUME NEW e \in V!Entity, V!Settled(e) PROVE Matches(e)
    BY <1>2 DEF VersionInv, V!Settled, Booked, Works
  <1>3. QED
    BY <1>1, <1>2 DEF VersionInv, V!VersionsSound, V!AtMostOneActive, Matches

LEMMA VersionsHold == ConfigSpec => []VersionInv
  <1>1. ConfigInit => VersionInv
    BY VersionInit DEF ConfigInit
  <1>2. [ConfigNext]_configVars => [V!Next]_(V!versionVars)
    BY DEF ConfigNext, configVars, versionVars, V!versionVars
  <1>3. VersionInv /\ [ConfigNext]_configVars => VersionInv'
    BY <1>2, VersionStep
  <1>4. QED
    BY <1>1, <1>3, PTL DEF ConfigSpec

\* version_service.py:74-101, 183-194, 323-328: however requests interleave and
\* fail, the live versions of an entity have different numbers and at most one
\* is active; and an entity only worked on by one request at a time, none cut
\* short, has the row of its active version.
THEOREM VersionsAreSound == ConfigSpec => []VersionsSound
  <1>1. VersionInv => VersionsSound
    BY VersionSafe DEF VersionsSound
  <1>2. QED
    BY <1>1, VersionsHold, PTL

-----------------------------------------------------------------------------
(* Models.                                                                 *)

Current(l) == llms[l].active /\ llms[l].default

\* One request at a time, and what it has done so far: the row it has in hand
\* is the only default there will be.
Serial ==
    /\ \A a, b \in Admin : turn[a] # "idle" /\ turn[b] # "idle" => a = b
    /\ \A l, m \in Llm : llms[l].default /\ llms[m].default => l = m
    /\ \A a \in Admin :
         turn[a] = "save" /\ read[a].default =>
           \A l \in Llm \ {asked[a].of} : ~llms[l].default

\* Of enable and disable alone: what a request has switched off before it saves
\* its row, and what it takes into the configuration afterwards.
Synced(a) ==
    /\ turn[a] \in {"others", "default", "save", "sync"} =>
         asked[a].kind \in {"enable", "disable"}
    /\ turn[a] \in {"others", "default"} => asked[a].kind = "enable"
    /\ turn[a] \in {"others", "default", "save"} =>
         IF asked[a].kind = "enable" THEN read[a].active /\ read[a].default
                                     ELSE ~read[a].active
    /\ turn[a] \in {"default", "save"} /\ asked[a].kind = "enable" =>
         \A l \in Llm \ {asked[a].of} :
           llms[l].active => llms[l].purpose # read[a].purpose
    /\ turn[a] = "sync" => (llms[asked[a].of].active => Current(asked[a].of))
    /\ turn[a] = "tenant" => \A l \in {target[a]} \ {None} : Current(l)
    /\ turn[a] = "force" => \A l \in {copy} \ {None} : Current(l)

\* A chat may be given what is active and what is copied.
MayUse(t) ==
    /\ look[t] = "idle" => using[t] = None
    /\ look[t] \in {"rows", "copy"} =>
         L!Active \cup ({copy, cachedCopy} \ {None}) \subseteq usable[t]
    /\ using[t] # None => using[t] \in usable[t]

Enabled ==
    /\ \A l, m \in L!Active : llms[l].purpose = llms[m].purpose => l = m
    /\ L!Quiet => \A l \in {copy, cachedCopy} \ {None} : Current(l)
    /\ \A a \in Admin : Synced(a)
    /\ \A t \in Talk : MayUse(t)

\* A request has its question until it has saved its row, or read it back.
Asking == \A a \in Admin :
            turn[a] \in {"others", "default", "save", "sync"} =>
              asked[a] \in [kind : L!Kinds, of : Llm]

ModelInv ==
    /\ L!TypeOK
    /\ Asking
    /\ ~interleaved => Serial /\ (~bypassed => Enabled)

LEMMA AtMostOneOf ==
    ASSUME NEW T, \A x, y \in T : x = y
    PROVE  L!AtMostOne(T)
  <1>1. Cardinality(T) <= 1
    BY OneAtMost
  <1>2. L!Cardinality(T) = Cardinality(T)
    BY DEF L!Cardinality, Cardinality
  <1>3. QED
    BY <1>1, <1>2 DEF L!AtMostOne

LEMMA SavedTypes ==
    ASSUME L!TypeOK, NEW now \in [Llm -> L!Row \cup {L!Absent}], L!Saved(now)
    PROVE  /\ llms' \in [Llm -> L!Row \cup {L!Absent}]
           /\ usable' \in [Talk -> SUBSET Llm]
  BY DEF L!Saved, L!TypeOK

LEMMA LlmTypeStep == ASSUME L!TypeOK, Asking, [L!Next]_(L!llmVars) PROVE L!TypeOK' /\ Asking'
  <1> USE DEF L!rowVars, L!adminVars, L!talkVars, L!pastVars
  <1> DEFINE Turns == {"idle", "others", "default", "save", "sync", "tenant", "force"}
             Looks == {"idle", "rows", "copy", "answered", "refused"}
  <1>1. /\ llms \in [Llm -> L!Row \cup {L!Absent}]
        /\ \A a \in Admin : turn[a] \in {"others", "default", "save", "sync"} =>
             asked[a] \in [kind : L!Kinds, of : Llm] /\ asked[a].of \in Llm
    BY DEF L!TypeOK, Asking
  <1>2. \A l \in Llm : \A x, y \in BOOLEAN :
          /\ llms[l] # L!Absent =>
               /\ llms[l] \in L!Row
               /\ [llms[l] EXCEPT !.active = x] \in L!Row
               /\ [llms[l] EXCEPT !.active = x, !.default = y] \in L!Row
          /\ [llms[l] EXCEPT !.default = FALSE] \in L!Row \cup {L!Absent}
          /\ [llms[l] EXCEPT !.active = FALSE, !.default = FALSE] \in L!Row \cup {L!Absent}
    <2>1. \A r \in L!Row : \A x, y \in BOOLEAN :
            /\ [r EXCEPT !.active = x] \in L!Row
            /\ [r EXCEPT !.active = x, !.default = y] \in L!Row
            /\ [r EXCEPT !.default = x] \in L!Row
      BY DEF L!Row
    <2>2. /\ [L!Absent EXCEPT !.default = FALSE] = L!Absent
          /\ [L!Absent EXCEPT !.active = FALSE, !.default = FALSE] = L!Absent
      <3> DEFINE None1 == [purpose : {"none"}, active : {FALSE}, default : {FALSE}]
      <3>1. \A r \in None1 : /\ [r EXCEPT !.default = FALSE] = r
                            /\ [r EXCEPT !.active = FALSE, !.default = FALSE] = r
        OBVIOUS
      <3>2. L!Absent \in None1
        BY DEF L!Absent
      <3>3. QED
        BY <3>1, <3>2
    <2>3. \A l \in Llm : llms[l] \in L!Row \/ llms[l] = L!Absent
      BY <1>1
    <2>4. QED
      BY <2>1, <2>2, <2>3
  <1>3. ASSUME NEW a \in Admin, L!Get(a) PROVE L!TypeOK' /\ Asking'
    <2>1. PICK k \in L!Kinds, l \in Llm :
            /\ (llms[l] = L!Absent) = (k = "create")
            /\ asked' = [asked EXCEPT ![a] = [kind |-> k, of |-> l]]
            /\ bypassed' = (bypassed \/ k \in {"create", "put", "delete"})
            /\ \E r \in L!Edited(k, llms[l]) :
                 /\ read' = [read EXCEPT ![a] = r]
                 /\ L!Turn(a, IF k = "enable" THEN "others"
                              ELSE IF r.default THEN "default" ELSE "save")
      BY <1>3 DEF L!Get
    <2>2. L!Edited(k, llms[l]) \subseteq L!Row
      BY <1>2, <2>1 DEF L!Edited, L!Kinds
    <2>3. read' \in [Admin -> L!Row \cup {L!Absent}] /\ turn' \in [Admin -> Turns]
      BY <2>1, <2>2 DEF L!Turn, L!TypeOK
    <2>4. asked' \in [Admin -> [kind : L!Kinds, of : Llm] \cup {None}]
      BY <2>1 DEF L!TypeOK
    <2>5. Asking'
      BY <2>1 DEF Asking, L!Turn, L!TypeOK
    <2>6. saves' \in 0 .. MaxSaves
      BY <1>3, ConfigAssumption DEF L!Get, L!TypeOK
    <2>7. bypassed' \in BOOLEAN /\ interleaved' \in BOOLEAN
      BY <1>3, <2>1, Zenon DEF L!Get, L!TypeOK
    <2>8. QED
      BY <1>3, <2>3, <2>4, <2>5, <2>6, <2>7 DEF L!Get, L!TypeOK
  <1>4. ASSUME NEW a \in Admin, L!DisableOthers(a) PROVE L!TypeOK' /\ Asking'
    <2>1. PICK now : /\ now \in [Llm -> L!Row \cup {L!Absent}]
                     /\ L!Saved(now)
      BY <1>1, <1>2, <1>4 DEF L!DisableOthers
    <2>2. L!TypeOK'
      BY <1>4, <2>1, SavedTypes DEF L!DisableOthers, L!Turn, L!TypeOK
    <2>3. Asking'
      BY <1>1, <1>4 DEF L!DisableOthers, L!Turn, L!TypeOK, Asking
    <2>4. QED
      BY <2>2, <2>3
  <1>5. ASSUME NEW a \in Admin, L!ClearDefaults(a) PROVE L!TypeOK' /\ Asking'
    <2>1. PICK now : /\ now \in [Llm -> L!Row \cup {L!Absent}]
                     /\ L!Saved(now)
      BY <1>1, <1>2, <1>5 DEF L!ClearDefaults
    <2>2. L!TypeOK'
      BY <1>5, <2>1, SavedTypes DEF L!ClearDefaults, L!Turn, L!TypeOK
    <2>3. Asking'
      BY <1>1, <1>5 DEF L!ClearDefaults, L!Turn, L!TypeOK, Asking
    <2>4. QED
      BY <2>2, <2>3
  <1>6. ASSUME NEW a \in Admin, L!SaveRow(a) PROVE L!TypeOK' /\ Asking'
    <2>1. [llms EXCEPT ![asked[a].of] = read[a]] \in [Llm -> L!Row \cup {L!Absent}]
      BY <1>1, <1>6 DEF L!TypeOK
    <2>2. L!TypeOK'
      BY ZenonT(30), <1>6, <2>1, SavedTypes DEF L!SaveRow, L!Turn, L!Forget, L!TypeOK
    <2>3. Asking'
      BY <1>1, <1>6 DEF L!SaveRow, L!Turn, L!Forget, L!TypeOK, Asking
    <2>4. QED
      BY <2>2, <2>3
  <1>7. ASSUME NEW a \in Admin, L!SyncModel(a) PROVE L!TypeOK' /\ Asking'
    BY <1>1, <1>7 DEF L!SyncModel, L!Turn, L!Forget, L!TypeOK, Asking
  <1>8. ASSUME NEW a \in Admin, L!SaveTenant(a) PROVE L!TypeOK' /\ Asking'
    BY <1>8 DEF L!SaveTenant, L!Turn, L!TypeOK, Asking
  <1>9. ASSUME NEW a \in Admin, L!ForceReload(a) PROVE L!TypeOK' /\ Asking'
    BY <1>9 DEF L!ForceReload, L!Turn, L!TypeOK, Asking
  <1>10. CASE L!Refresh
    BY <1>10 DEF L!Refresh, L!TypeOK, Asking
  <1>11. ASSUME NEW t \in Talk, L!StartTalk(t) \/ L!FindDefault(t) \/ L!UseCopy(t)
         PROVE  L!TypeOK' /\ Asking'
    <2>1. L!Active \subseteq Llm
      BY DEF L!Active
    <2>2. /\ look' \in [Talk -> Looks] /\ using' \in [Talk -> Llm \cup {None}]
          /\ usable' \in [Talk -> SUBSET Llm]
      BY <1>11, <2>1 DEF L!StartTalk, L!FindDefault, L!UseCopy, L!TypeOK
    <2>3. UNCHANGED <<L!rowVars, L!adminVars, L!pastVars>>
      BY <1>11 DEF L!StartTalk, L!FindDefault, L!UseCopy
    <2>4. QED
      BY <2>2, <2>3 DEF L!TypeOK, Asking
  <1>12. CASE UNCHANGED L!llmVars
    BY <1>12 DEF L!llmVars, L!TypeOK, Asking
  <1>13. QED
    BY <1>3, <1>4, <1>5, <1>6, <1>7, <1>8, <1>9, <1>10, <1>11, <1>12 DEF L!Next

\* What switching off changes of a row.
LEMMA SwitchedOff ==
    ASSUME NEW r \in L!Row \cup {L!Absent}
    PROVE  /\ [r EXCEPT !.active = FALSE, !.default = FALSE].active = FALSE
           /\ [r EXCEPT !.active = FALSE, !.default = FALSE].default = FALSE
           /\ [r EXCEPT !.active = FALSE, !.default = FALSE].purpose = r.purpose
           /\ [r EXCEPT !.default = FALSE].default = FALSE
           /\ [r EXCEPT !.default = FALSE].active = r.active
           /\ [r EXCEPT !.default = FALSE].purpose = r.purpose
  BY DEF L!Row, L!Absent

LEMMA SerialStep ==
    ASSUME L!TypeOK, Asking, Serial, L!Next, ~interleaved'
    PROVE  Serial'
  <1> USE DEF L!rowVars, L!adminVars, L!talkVars, L!pastVars
  <1>1. /\ turn \in [Admin -> {"idle", "others", "default", "save", "sync", "tenant", "force"}]
        /\ llms \in [Llm -> L!Row \cup {L!Absent}] /\ read \in [Admin -> L!Row \cup {L!Absent}]
        /\ \A a \in Admin : turn[a] \in {"others", "default", "save", "sync"} =>
             asked[a].of \in Llm
    BY DEF L!TypeOK, Asking
  <1>2. ASSUME NEW a \in Admin, L!Get(a) PROVE Serial'
    <2>1. turn[a] = "idle" /\ \A b \in Admin : turn[b] = "idle"
      BY <1>2 DEF L!Get
    <2>2. PICK r : /\ read' = [read EXCEPT ![a] = r]
                   /\ turn' = [turn EXCEPT ![a] = turn'[a]]
                   /\ turn'[a] = "save" => ~r.default
      BY <1>1, <1>2 DEF L!Get, L!Turn
    <2>3. llms' = llms
      BY <1>2 DEF L!Get
    <2>4. QED
      BY <1>1, <2>1, <2>2, <2>3 DEF Serial
  <1>3. ASSUME NEW a \in Admin, turn[a] # "idle", turn' = [turn EXCEPT ![a] = turn'[a]]
        PROVE  /\ \A b \in Admin \ {a} : turn'[b] = "idle"
               /\ \A b, c \in Admin : turn'[b] # "idle" /\ turn'[c] # "idle" => b = c
    BY <1>1, <1>3 DEF Serial
  <1>4. ASSUME NEW a \in Admin, L!DisableOthers(a) PROVE Serial'
    <2>1. \A l \in Llm : llms'[l].default => llms[l].default
      BY <1>1, <1>4, SwitchedOff DEF L!DisableOthers, L!Saved
    <2>2. turn' = [turn EXCEPT ![a] = "default"] /\ turn[a] = "others"
      BY <1>4 DEF L!DisableOthers, L!Turn
    <2>3. QED
      BY <1>1, <1>3, <2>1, <2>2 DEF Serial
  <1>5. ASSUME NEW a \in Admin, L!ClearDefaults(a) PROVE Serial'
    <2>1. \A l \in Llm \ {asked[a].of} : ~llms'[l].default
      BY <1>1, <1>5, SwitchedOff DEF L!ClearDefaults, L!Saved
    <2>2. turn' = [turn EXCEPT ![a] = "save"] /\ turn[a] = "default" /\ UNCHANGED asked
      BY <1>5 DEF L!ClearDefaults, L!Turn
    <2>3. QED
      BY <1>1, <1>3, <2>1, <2>2 DEF Serial
  <1>6. ASSUME NEW a \in Admin, L!SaveRow(a) PROVE Serial'
    <2>1. /\ turn[a] = "save" /\ turn' = [turn EXCEPT ![a] = turn'[a]]
          /\ turn'[a] \in {"sync", "idle"}
          /\ llms' = [llms EXCEPT ![asked[a].of] = read[a]]
      BY <1>1, <1>6 DEF L!SaveRow, L!Turn, L!Saved
    <2>2. QED
      BY <1>1, <1>3, <2>1 DEF Serial
  <1>7. ASSUME NEW a \in Admin, L!SyncModel(a) \/ L!SaveTenant(a) \/ L!ForceReload(a)
        PROVE  Serial'
    <2>1. /\ turn[a] # "idle" /\ turn' = [turn EXCEPT ![a] = turn'[a]]
          /\ turn'[a] \in {"tenant", "force", "idle"} /\ UNCHANGED llms
      BY <1>1, <1>7 DEF L!SyncModel, L!SaveTenant, L!ForceReload, L!Turn
    <2>2. QED
      BY <1>1, <1>3, <2>1 DEF Serial
  <1>8. CASE L!Refresh
    BY <1>8 DEF L!Refresh, Serial
  <1>9. ASSUME NEW t \in Talk, L!StartTalk(t) \/ L!FindDefault(t) \/ L!UseCopy(t)
        PROVE  Serial'
    BY <1>9 DEF L!StartTalk, L!FindDefault, L!UseCopy, Serial
  <1>10. QED
    BY <1>2, <1>4, <1>5, <1>6, <1>7, <1>8, <1>9 DEF L!Next

\* Whatever is saved, a chat that is looking may be given.
LEMMA SavedMayUse ==
    ASSUME L!TypeOK, NEW now, L!Saved(now), UNCHANGED <<copy, cachedCopy, look, using>>,
           NEW t \in Talk, MayUse(t)
    PROVE  MayUse(t)'
  <1>1. /\ llms' = now /\ look'[t] = look[t] /\ using'[t] = using[t]
        /\ usable'[t] = IF look[t] \in {"rows", "copy"}
                        THEN usable[t] \cup {l \in Llm : now[l].active} ELSE usable[t]
    BY DEF L!Saved, L!TypeOK
  <1>2. usable[t] \subseteq usable'[t]
    BY <1>1
  <1>3. look[t] \in {"rows", "copy"} => L!Active' \subseteq usable'[t]
    BY <1>1 DEF L!Active
  <1>4. QED
    BY <1>1, <1>2, <1>3 DEF MayUse

LEMMA EnabledStep ==
    ASSUME L!TypeOK, Asking, Serial, Enabled, L!Next, ~interleaved', ~bypassed'
    PROVE  Enabled'
  <1> USE DEF L!rowVars, L!adminVars, L!talkVars, L!pastVars
  <1>1. /\ turn \in [Admin -> {"idle", "others", "default", "save", "sync", "tenant", "force"}]
        /\ llms \in [Llm -> L!Row \cup {L!Absent}] /\ read \in [Admin -> L!Row \cup {L!Absent}]
        /\ asked \in [Admin -> [kind : L!Kinds, of : Llm] \cup {None}]
        /\ target \in [Admin -> Llm \cup {None}]
        /\ \A a \in Admin : turn[a] \in {"others", "default", "save", "sync"} =>
             asked[a] \in [kind : L!Kinds, of : Llm] /\ asked[a].of \in Llm
    BY DEF L!TypeOK, Asking
  <1>2. ASSUME NEW a \in Admin, L!Get(a) PROVE Enabled'
    <2>1. \A b \in Admin : turn[b] = "idle"
      BY <1>2 DEF L!Get
    <2>2. UNCHANGED <<llms, copy, cachedCopy, target, look, using, usable>>
      BY <1>2 DEF L!Get
    <2>12. PICK k \in L!Kinds, l \in Llm :
             /\ (llms[l] = L!Absent) = (k = "create")
             /\ asked' = [asked EXCEPT ![a] = [kind |-> k, of |-> l]]
             /\ bypassed' = (bypassed \/ k \in {"create", "put", "delete"})
             /\ \E s \in L!Edited(k, llms[l]) :
                  /\ read' = [read EXCEPT ![a] = s]
                  /\ L!Turn(a, IF k = "enable" THEN "others"
                               ELSE IF s.default THEN "default" ELSE "save")
      BY <1>2 DEF L!Get
    <2>3. k \in {"enable", "disable"} /\ llms[l] # L!Absent
      <3>1. k \notin {"create", "put", "delete"}
        BY <2>12, Zenon
      <3>2. QED
        BY <2>12, <3>1 DEF L!Kinds
    <2>4. llms[l] \in L!Row
      BY <1>1, <2>3
    <2>11. PICK r \in L!Edited(k, llms[l]) :
             /\ read' = [read EXCEPT ![a] = r]
             /\ turn' = [turn EXCEPT ![a] = IF k = "enable" THEN "others"
                               ELSE IF r.default THEN "default" ELSE "save"]
      BY <2>12 DEF L!Turn
    <2>5. /\ k = "enable" => r.active /\ r.default
          /\ k = "disable" => ~r.active /\ ~r.default
      BY <2>3, <2>4 DEF L!Edited, L!Row
    <2>6. /\ turn'[a] = IF k = "enable" THEN "others" ELSE "save"
          /\ asked'[a].kind = k /\ read'[a] = r
          /\ \A b \in Admin \ {a} : turn'[b] = "idle"
      BY <1>1, <2>1, <2>3, <2>5, <2>11, <2>12
    <2>7. \A b \in Admin : Synced(b)'
      BY <2>3, <2>5, <2>6 DEF Synced
    <2>8. \A t \in Talk : MayUse(t)'
      BY <2>2 DEF Enabled, MayUse, L!Active
    <2>9. ~L!Quiet'
      BY <2>6 DEF L!Quiet
    <2>10. QED
      BY <2>2, <2>7, <2>8, <2>9 DEF Enabled, L!Active
  <1>3. ASSUME NEW a \in Admin, turn[a] # "idle", turn' = [turn EXCEPT ![a] = turn'[a]]
        PROVE  /\ \A b \in Admin \ {a} : turn'[b] = "idle" /\ Synced(b)'
               /\ turn'[a] # "idle" => ~L!Quiet'
    BY <1>1, <1>3 DEF Serial, Synced, L!Quiet
  <1>4. ASSUME NEW a \in Admin, L!DisableOthers(a) PROVE Enabled'
    <2> DEFINE others == {l \in L!Active \ {asked[a].of} : llms[l].purpose = read[a].purpose}
               now == [l \in Llm |-> IF l \in others
                                     THEN [llms[l] EXCEPT !.active = FALSE, !.default = FALSE]
                                     ELSE llms[l]]
    <2>1. /\ turn[a] = "others" /\ turn' = [turn EXCEPT ![a] = "default"] /\ L!Saved(now)
          /\ UNCHANGED <<asked, read, copy, cachedCopy, look, using>>
      BY <1>4 DEF L!DisableOthers, L!Turn
    <2>2. \A l \in Llm : /\ llms'[l].purpose = llms[l].purpose
                         /\ llms'[l].active => llms[l].active /\ l \notin others
      BY <1>1, <2>1, SwitchedOff DEF L!Saved
    <2>3. \A t \in Talk : MayUse(t)'
      BY <2>1, SavedMayUse DEF Enabled
    <2>4. Synced(a)'
      BY <1>1, <2>1, <2>2 DEF Enabled, Synced, L!Active
    <2>5. \A l, m \in L!Active' : llms'[l].purpose = llms'[m].purpose => l = m
      BY <2>2 DEF Enabled, L!Active
    <2>6. QED
      BY <1>1, <1>3, <2>1, <2>3, <2>4, <2>5 DEF Enabled
  <1>5. ASSUME NEW a \in Admin, L!ClearDefaults(a) PROVE Enabled'
    <2> DEFINE now == [l \in Llm |-> IF l = asked[a].of THEN llms[l]
                                     ELSE [llms[l] EXCEPT !.default = FALSE]]
    <2>1. /\ turn[a] = "default" /\ turn' = [turn EXCEPT ![a] = "save"] /\ L!Saved(now)
          /\ UNCHANGED <<asked, read, copy, cachedCopy, look, using>>
      BY <1>5 DEF L!ClearDefaults, L!Turn
    <2>2. \A l \in Llm : /\ llms'[l].purpose = llms[l].purpose
                         /\ llms'[l].active = llms[l].active
      BY <1>1, <2>1, SwitchedOff DEF L!Saved
    <2>3. \A t \in Talk : MayUse(t)'
      BY <2>1, SavedMayUse DEF Enabled
    <2>4. Synced(a)'
      BY <1>1, <2>1, <2>2 DEF Enabled, Synced, L!Active
    <2>5. \A l, m \in L!Active' : llms'[l].purpose = llms'[m].purpose => l = m
      BY <2>2 DEF Enabled, L!Active
    <2>6. QED
      BY <1>1, <1>3, <2>1, <2>3, <2>4, <2>5 DEF Enabled
  <1>6. ASSUME NEW a \in Admin, L!SaveRow(a) PROVE Enabled'
    <2> DEFINE of == asked[a].of
    <2>1. /\ turn[a] = "save" /\ of \in Llm /\ asked[a].kind \in {"enable", "disable"}
          /\ turn' = [turn EXCEPT ![a] = "sync"] /\ L!Saved([llms EXCEPT ![of] = read[a]])
          /\ UNCHANGED <<asked, copy, cachedCopy, look, using>>
      BY <1>1, <1>6 DEF L!SaveRow, L!Turn, Enabled, Synced
    <2>2. llms' = [llms EXCEPT ![of] = read[a]]
      BY <2>1 DEF L!Saved
    <2>3. \A t \in Talk : MayUse(t)'
      BY <2>1, SavedMayUse DEF Enabled
    <2>4. /\ IF asked[a].kind = "enable" THEN read[a].active /\ read[a].default
                                         ELSE ~read[a].active
          /\ asked[a].kind = "enable" =>
               \A l \in Llm \ {of} : llms[l].active => llms[l].purpose # read[a].purpose
      BY <2>1 DEF Enabled, Synced
    <2>5. Synced(a)'
      BY <1>1, <2>1, <2>2, <2>4 DEF Synced, Current
    <2>6. \A l, m \in L!Active' : llms'[l].purpose = llms'[m].purpose => l = m
      BY <1>1, <2>1, <2>2, <2>4 DEF Enabled, L!Active
    <2>7. QED
      BY <1>1, <1>3, <2>1, <2>3, <2>5, <2>6 DEF Enabled
  <1>7. ASSUME NEW a \in Admin, L!SyncModel(a) PROVE Enabled'
    <2>1. /\ turn[a] = "sync" /\ turn' = [turn EXCEPT ![a] = "tenant"]
          /\ target'[a] = IF llms[asked[a].of].active THEN asked[a].of ELSE None
          /\ UNCHANGED <<llms, copy, cachedCopy, look, using, usable>>
      BY <1>1, <1>7 DEF L!SyncModel, L!Turn
    <2>2. Synced(a)'
      BY <1>1, <2>1 DEF Enabled, Synced, Current
    <2>3. \A t \in Talk : MayUse(t)'
      BY <2>1 DEF Enabled, MayUse, L!Active
    <2>4. QED
      BY <1>1, <1>3, <2>1, <2>2, <2>3 DEF Enabled, L!Active
  <1>8. ASSUME NEW a \in Admin, L!SaveTenant(a) PROVE Enabled'
    <2>1. /\ turn[a] = "tenant" /\ turn' = [turn EXCEPT ![a] = "force"] /\ copy' = target[a]
          /\ UNCHANGED <<llms, cachedCopy, look, using, usable>>
      BY <1>1, <1>8 DEF L!SaveTenant, L!Turn
    <2>2. \A l \in {copy'} \ {None} : l \in L!Active /\ Current(l)
      BY <1>1, <2>1 DEF Enabled, Synced, Current, L!Active
    <2>3. Synced(a)'
      BY <1>1, <2>1, <2>2 DEF Synced, Current
    <2>4. \A t \in Talk : MayUse(t)'
      BY <2>1, <2>2 DEF Enabled, MayUse, L!Active
    <2>5. QED
      BY <1>1, <1>3, <2>1, <2>3, <2>4 DEF Enabled, L!Active
  <1>9. ASSUME NEW a \in Admin, L!ForceReload(a) PROVE Enabled'
    <2>1. /\ turn[a] = "force" /\ turn' = [turn EXCEPT ![a] = "idle"] /\ cachedCopy' = copy
          /\ UNCHANGED <<llms, copy, look, using, usable>>
      BY <1>1, <1>9 DEF L!ForceReload, L!Turn
    <2>2. \A l \in {copy} \ {None} : Current(l)'
      BY <2>1 DEF Enabled, Synced, Current
    <2>3. Synced(a)'
      BY <1>1, <2>1 DEF Synced
    <2>4. \A t \in Talk : MayUse(t)'
      BY <2>1 DEF Enabled, MayUse, L!Active
    <2>5. QED
      BY <1>1, <1>3, <2>1, <2>2, <2>3, <2>4 DEF Enabled, L!Active
  <1>10. CASE L!Refresh
    <2>1. cachedCopy' = copy /\ UNCHANGED <<llms, copy, asked, read, turn, target, look, using, usable>>
      BY <1>10 DEF L!Refresh
    <2>2. QED
      BY <2>1 DEF Enabled, L!Quiet, L!Active, Synced, MayUse, Current
  <1>11. ASSUME NEW t \in Talk, L!StartTalk(t) \/ L!FindDefault(t) \/ L!UseCopy(t)
         PROVE  Enabled'
    <2>1. UNCHANGED <<llms, copy, cachedCopy, turn, asked, read, target>>
      BY <1>11 DEF L!StartTalk, L!FindDefault, L!UseCopy
    <2>2. /\ L!Active \subseteq Llm /\ copy \in Llm \cup {None} /\ cachedCopy \in Llm \cup {None}
          /\ L!Quiet => {copy, cachedCopy} \ {None} \subseteq L!Active
          /\ usable \in [Talk -> SUBSET Llm] /\ using \in [Talk -> Llm \cup {None}]
          /\ look \in [Talk -> {"idle", "rows", "copy", "answered", "refused"}]
      BY DEF L!Active, L!TypeOK, Enabled, Current
    <2>3. CASE L!StartTalk(t)
      BY <2>1, <2>2, <2>3 DEF L!StartTalk, L!Quiet, L!Active, Enabled, Synced, MayUse, Current
    <2>4. CASE L!FindDefault(t)
      BY <2>1, <2>2, <2>4 DEF L!FindDefault, L!Quiet, L!Active, Enabled, Synced, MayUse, Current
    <2>5. CASE L!UseCopy(t)
      BY <2>1, <2>2, <2>5 DEF L!UseCopy, L!Quiet, L!Active, Enabled, Synced, MayUse, Current
    <2>6. QED
      BY <1>11, <2>3, <2>4, <2>5
  <1>12. QED
    BY <1>2, <1>4, <1>5, <1>6, <1>7, <1>8, <1>9, <1>10, <1>11 DEF L!Next

\* What was once overlapped or bypassed stays so.
LEMMA PastStays ==
    ASSUME L!Next PROVE (interleaved => interleaved') /\ (bypassed => bypassed')
  <1>1. ASSUME NEW a \in Admin, L!Get(a)
        PROVE  (interleaved => interleaved') /\ (bypassed => bypassed')
    BY <1>1, Zenon DEF L!Get
  <1>2. (\E a \in Admin : L!Get(a)) \/ UNCHANGED <<interleaved, bypassed>>
    BY DEF L!Next, L!DisableOthers, L!ClearDefaults, L!SaveRow, L!SyncModel,
           L!SaveTenant, L!ForceReload, L!Refresh, L!StartTalk, L!FindDefault, L!UseCopy,
           L!pastVars
  <1>3. QED
    BY <1>1, <1>2

LEMMA ModelStep == ASSUME ModelInv, [L!Next]_(L!llmVars) PROVE ModelInv'
  <1>1. CASE L!Next
    <2>1. L!TypeOK' /\ Asking'
      BY LlmTypeStep DEF ModelInv
    <2>2. ~interleaved' => Serial'
      BY <1>1, SerialStep, PastStays DEF ModelInv
    <2>3. ~interleaved' /\ ~bypassed' => Enabled'
      BY <1>1, EnabledStep, PastStays DEF ModelInv
    <2>4. QED
      BY <2>1, <2>2, <2>3 DEF ModelInv
  <1>2. CASE UNCHANGED L!llmVars
    BY <1>2 DEF L!llmVars, L!rowVars, L!adminVars, L!talkVars, L!pastVars, ModelInv,
                L!TypeOK, Asking, Serial, Enabled, L!Active, L!Quiet, Synced, MayUse, Current
  <1>3. QED
    BY <1>1, <1>2

LEMMA ModelInit == ASSUME L!Init PROVE ModelInv
  <1>1. PICK rs \in SUBSET Llm, p \in [Llm -> L!Purpose], on \in Llm \cup {None} :
          /\ on \in rs \cup {None}
          /\ llms = [l \in Llm |-> IF l \in rs
                                   THEN [purpose |-> p[l], active |-> l = on, default |-> l = on]
                                   ELSE L!Absent]
          /\ copy = on /\ cachedCopy = on
    BY DEF L!Init
  <1>2. /\ saves = 0 /\ turn = [a \in Admin |-> "idle"] /\ asked = [a \in Admin |-> None]
        /\ read = [a \in Admin |-> L!Absent] /\ target = [a \in Admin |-> None]
        /\ look = [t \in Talk |-> "idle"] /\ using = [t \in Talk |-> None]
        /\ usable = [t \in Talk |-> {}] /\ interleaved = FALSE /\ bypassed = FALSE
    BY DEF L!Init
  <1>3. \A l \in Llm : /\ llms[l] \in L!Row \cup {L!Absent}
                       /\ llms[l].default => l = on
                       /\ llms[l].active => l = on
                       /\ l = on => Current(l)
    <2>1. \A l \in rs : /\ llms[l].active <=> l = on
                        /\ llms[l].default <=> l = on
                        /\ llms[l] \in L!Row
      BY <1>1 DEF L!Row
    <2>2. \A l \in Llm \ rs : /\ llms[l] = L!Absent
                              /\ ~llms[l].active /\ ~llms[l].default
      BY <1>1 DEF L!Absent
    <2>3. None \notin Llm
      BY ConfigAssumption
    <2>4. QED
      BY <1>1, <2>1, <2>2, <2>3 DEF Current
  <1>4. L!TypeOK
    <2>1. saves \in 0 .. MaxSaves
      BY <1>2, ConfigAssumption
    <2>2. interleaved \in BOOLEAN /\ bypassed \in BOOLEAN
      BY <1>2, Zenon
    <2>3. llms \in [Llm -> L!Row \cup {L!Absent}]
      BY <1>1, <1>3
    <2>4. QED
      BY <1>1, <1>2, <2>1, <2>2, <2>3 DEF L!TypeOK
  <1>5. Asking /\ Serial
    BY <1>2, <1>3 DEF Asking, Serial
  <1>6. Enabled
    BY <1>1, <1>2, <1>3 DEF Enabled, Synced, MayUse, L!Active
  <1>7. QED
    BY <1>4, <1>5, <1>6 DEF ModelInv

LEMMA ModelSafe == ModelInv => L!ModelsFollowRows
  <1> SUFFICES ASSUME ModelInv, ~interleaved PROVE L!ModelsFollowRows
    BY DEF L!ModelsFollowRows
  <1>1. Serial /\ (~bypassed => Enabled) /\ L!TypeOK
    BY DEF ModelInv
  <1>2. L!AtMostOne({l \in Llm : llms[l].default})
    <2> DEFINE T == {l \in Llm : llms[l].default}
    <2>1. \A x, y \in T : x = y
      BY <1>1 DEF Serial
    <2> HIDE DEF T
    <2>2. L!AtMostOne(T)
      BY <2>1, AtMostOneOf
    <2>3. QED
      BY <2>2 DEF T
  <1>3. ASSUME L!Quiet, ~bypassed
        PROVE  /\ \A p \in L!Purpose : L!AtMostOne({l \in L!Active : llms[l].purpose = p})
               /\ {copy, cachedCopy} \subseteq {None} \cup {l \in L!Active : llms[l].default}
    <2>1. ASSUME NEW p \in L!Purpose
          PROVE  L!AtMostOne({l \in L!Active : llms[l].purpose = p})
      <3> DEFINE T == {l \in L!Active : llms[l].purpose = p}
      <3>1. \A x, y \in T : x = y
        BY <1>1, <1>3 DEF Enabled
      <3> HIDE DEF T
      <3>2. L!AtMostOne(T)
        BY <3>1, AtMostOneOf
      <3>3. QED
        BY <3>2 DEF T
    <2>2. {copy, cachedCopy} \subseteq {None} \cup {l \in L!Active : llms[l].default}
      BY <1>1, <1>3 DEF Enabled, Current, L!Active, L!TypeOK
    <2>3. QED
      BY <2>1, <2>2
  <1>4. ~bypassed => \A t \in Talk : using[t] # None => using[t] \in usable[t]
    BY <1>1 DEF Enabled, MayUse
  <1>5. QED
    BY <1>2, <1>3, <1>4 DEF L!ModelsFollowRows

-----------------------------------------------------------------------------
(* The catalogue.                                                          *)

Switch == {"enable", "disable"}

\* What an admin request is doing is what it was asked.
Doing(a) ==
    /\ C!Busy(a) => edit[a] \in C!Edits /\ pc[a] \notin {"reload", "mcp", "stuck"}
    /\ pc[a] \in {"tenant", "save", "force", "config", "clear", "query", "load"} =>
         edit[a].kind \in Switch \cup {"builtin"}
    /\ pc[a] = "collect" => edit[a].kind \in Switch
    /\ pc[a] = "builtin" => edit[a].kind = "builtin"
    /\ pc[a] = "find"    => edit[a].kind = "toggle"
    /\ pc[a] = "drop"    => edit[a].kind \in {"toggle", "delete"}
    /\ pc[a] = "asking"  => edit[a].kind = "refresh"

\* The tools of the registries that come from servers.
Served == known \cup (bucket \cap Server)

Agreed ==
    /\ tenant.tools = rows /\ hash = rows /\ bucket \cap Tool = rows \ unloaded
    /\ cached = tenant /\ off = tenant.off
    /\ Served \subseteq servers

\* How far the copies are behind while a request is at work alone.
Behind(a) ==
    LET of     == edit[a].of
        switch == edit[a].kind \in Switch
        builtin == edit[a].kind = "builtin"
    IN
    /\ tenant.tools = rows \/ (switch /\ pc[a] \in {"tenant", "collect", "save"})
    /\ cached = tenant \/ pc[a] = "force"
    /\ off = tenant.off
       \/ (builtin /\ pc[a] \in {"force", "config", "clear", "query", "load", "builtin"})
    /\ hash = rows
       \/ (switch /\ pc[a] \in {"tenant", "collect", "save", "force", "config", "clear",
                                "query", "load"})
    /\ bucket \cap Tool = rows \ unloaded
       \/ (switch /\ pc[a] \in {"tenant", "collect", "save", "force", "config", "clear"})
       \/ (bucket \cap Tool = {} /\ pc[a] \in {"query", "load"})
    /\ Served \subseteq IF pc[a] = "drop" THEN servers \cup {of} ELSE servers
    /\ pc[a] = "collect" => seen[a] = tenant
    /\ pc[a] = "save" => seen[a].tools = rows /\ (switch => seen[a].off = tenant.off)
    /\ pc[a] \in {"clear", "query", "load"} => cfg[a] = rows
    /\ pc[a] \in {"query", "load"} => bucket \cap Tool = {}
    /\ pc[a] = "row" /\ edit[a].kind = "delete" => of \notin Served
    /\ pc[a] = "find" => of \in servers
    /\ pc[a] = "asking" => found[a] = servers

Alone == \A a, b \in C!Actor : C!Busy(a) /\ C!Busy(b) => a = b

Followed ==
    /\ (\A a \in C!Actor : ~C!Busy(a)) => Agreed
    /\ \A a \in Admin : C!Busy(a) => Behind(a)
    /\ C!Busy(Refresher) => Agreed /\ pc[Refresher] \in {"reload", "mcp", "stuck"}

CatalogInv ==
    /\ C!TypeOK
    /\ \A a \in Admin : Doing(a)
    /\ ~overlapped => Alone /\ (~unsynced /\ ~lapsed => Followed)

\* What an edit is of.
LEMMA EditOf ==
    ASSUME NEW e \in C!Edits
    PROVE  /\ e.kind \in {"enable", "disable", "put", "builtin", "toggle", "delete",
                          "put server", "refresh"}
           /\ e.kind \in {"enable", "disable", "put"} => e.of \in Tool
           /\ e.kind = "builtin" => e.of \in Builtin
           /\ e.kind \in {"toggle", "delete", "put server", "refresh"} => e.of \in Server
  BY DEF C!Edits

LEMMA CatalogTypeStep ==
    ASSUME C!TypeOK, \A a \in Admin : Doing(a), C!Next
    PROVE  C!TypeOK' /\ \A a \in Admin : Doing(a)'
  <1> USE DEF C!dbVars, C!memoryVars, C!actorVars, C!historyVars
  <1> DEFINE Types == C!TypeOK' /\ \A a \in Admin : Doing(a)'
  <1>1. /\ rows \subseteq Tool /\ servers \subseteq Server /\ off \subseteq Builtin
        /\ tenant \in C!Config /\ cached \in C!Config /\ lock \in C!Actor \cup {None}
        /\ hash \subseteq Tool /\ bucket \subseteq Tool \cup Server /\ known \subseteq Server
        /\ pc \in [C!Actor -> C!Places] /\ edit \in [Admin -> C!Edits \cup {None}]
        /\ seen \in [Admin -> C!Config] /\ cfg \in [C!Actor -> SUBSET Tool]
        /\ found \in [Admin -> SUBSET Server] /\ unloaded \subseteq Tool
        /\ \A c \in C!Config : c.tools \subseteq Tool /\ c.off \subseteq Builtin
        /\ Admin \subseteq C!Actor /\ Refresher \in C!Actor /\ Refresher \notin Admin
    BY ConfigAssumption DEF C!TypeOK, C!Config, C!Actor
  <1>2. overlapped \in BOOLEAN /\ unsynced \in BOOLEAN /\ lapsed \in BOOLEAN
    BY DEF C!TypeOK
  <1>3. ASSUME NEW a \in Admin, C!Ask(a) PROVE Types
    <2>1. PICK e \in C!Edits : edit' = [edit EXCEPT ![a] = e] /\ C!Begin(a, C!FirstStep(e.kind))
      BY <1>3 DEF C!Ask
    <2>2. C!FirstStep(e.kind) \in {"row", "tenant", "drop"}
          /\ (C!FirstStep(e.kind) = "tenant" => e.kind = "builtin")
          /\ (C!FirstStep(e.kind) = "drop" => e.kind = "delete")
      BY <2>1, EditOf DEF C!FirstStep
    <2>3. overlapped' \in BOOLEAN
      BY <2>1, Zenon DEF C!Begin
    <2>4. pc' = [pc EXCEPT ![a] = C!FirstStep(e.kind)]
      BY <2>1 DEF C!Begin, C!Goto
    <2>5. \A b \in Admin : Doing(b)'
      BY <1>1, <2>1, <2>2, <2>4 DEF Doing, C!Busy
    <2>6. C!TypeOK'
      BY <1>1, <1>2, <1>3, <2>1, <2>2, <2>3, <2>4 DEF C!Ask, C!TypeOK, C!Places
    <2>7. QED
      BY <2>5, <2>6
  <1>4. ASSUME NEW a \in Admin, C!AdminStep(a) PROVE Types
    <2>1. C!Busy(a) /\ edit[a] \in C!Edits
      BY <1>4 DEF C!AdminStep, C!SaveRow, C!PutRow, C!ReadTenant, C!CollectTools,
                  C!SaveTenant, C!RequestFails, C!ForceReload, C!TakeConfig, C!ReloadBuiltin,
                C!ToggleServer,
                  C!FindTools, C!DropTools, C!DeleteServer, C!PutServer, C!ReadServer,
                  C!SaveServer, C!Busy, Doing
    <2>2. /\ edit[a].kind \in {"enable", "disable", "put"} => edit[a].of \in Tool
          /\ edit[a].kind = "builtin" => edit[a].of \in Builtin
          /\ edit[a].kind \in {"toggle", "delete", "put server", "refresh"} => edit[a].of \in Server
          /\ Doing(a)
      BY <2>1, EditOf
    <2> DEFINE Goes(places) == /\ pc' = [pc EXCEPT ![a] = pc'[a]] /\ pc'[a] \in places
                               /\ edit' = edit
               Ends == /\ pc' = [pc EXCEPT ![a] = "done"]
                       /\ edit' = [edit EXCEPT ![a] = None]
    <2>3. ASSUME C!SaveRow(a) \/ C!PutRow(a) \/ C!ToggleServer(a) \/ C!DeleteServer(a)
                 \/ C!PutServer(a)
          PROVE  Types
      <3>1. \/ edit[a].kind \in Switch /\ Goes({"tenant"})
            \/ edit[a].kind = "toggle" /\ Goes({"find", "drop"})
            \/ Ends
        BY <1>1, <2>3 DEF C!SaveRow, C!PutRow, C!ToggleServer, C!DeleteServer, C!PutServer,
                          C!Goto, C!Finish, Switch
      <3>2. \A b \in Admin : Doing(b)'
        BY ZenonT(30), <1>1, <2>1, <2>2, <3>1 DEF Doing, C!Busy, Switch
      <3>3. unsynced' \in BOOLEAN
        BY <1>2, <2>3 DEF C!SaveRow, C!PutRow, C!ToggleServer, C!DeleteServer, C!PutServer
      <3>4. rows' \subseteq Tool /\ servers' \subseteq Server
        BY <1>1, <2>2, <2>3 DEF C!SaveRow, C!PutRow, C!ToggleServer, C!DeleteServer,
                                C!PutServer, C!Toggled
      <3>5. /\ pc' \in [C!Actor -> C!Places] /\ edit' \in [Admin -> C!Edits \cup {None}]
            /\ UNCHANGED <<tenant, lock, cached, off, hash, bucket, known, seen, cfg, found,
                           unloaded, overlapped, lapsed>>
        BY <1>1, <2>3, <3>1 DEF C!SaveRow, C!PutRow, C!ToggleServer, C!DeleteServer,
                                C!PutServer, C!Places
      <3>6. QED
        BY <1>1, <1>2, <3>2, <3>3, <3>4, <3>5 DEF C!TypeOK
    <2>4. ASSUME C!ReadTenant(a) \/ C!CollectTools(a) \/ C!SaveTenant(a)
          PROVE  Types
      <3>1. \/ edit[a].kind = "builtin" /\ Goes({"save"})
            \/ edit[a].kind \in Switch /\ Goes({"collect", "save"})
            \/ edit[a].kind \in Switch \cup {"builtin"} /\ Goes({"force"})
        BY <1>1, <2>2, <2>4 DEF C!ReadTenant, C!CollectTools, C!SaveTenant, C!Goto, Doing
      <3>2. \A b \in Admin : Doing(b)'
        BY <1>1, <2>1, <2>2, <3>1 DEF Doing, C!Busy, Switch
      <3>3. /\ C!Empty \in C!Config /\ seen[a] \in C!Config
            /\ [seen EXCEPT ![a].tools = rows] \in [Admin -> C!Config]
            /\ edit[a].kind = "builtin" =>
                 [tenant EXCEPT !.off = C!Toggled(@, edit[a].of)] \in C!Config
        BY <1>1, <2>2 DEF C!Config, C!Empty, C!Toggled
      <3>4. seen' \in [Admin -> C!Config] /\ tenant' \in C!Config
        BY <1>1, <2>4, <3>3 DEF C!ReadTenant, C!CollectTools, C!SaveTenant
      <3>5. /\ pc' \in [C!Actor -> C!Places] /\ edit' \in [Admin -> C!Edits \cup {None}]
            /\ UNCHANGED <<rows, servers, lock, cached, off, hash, bucket, known, cfg, found,
                           unloaded, overlapped, unsynced, lapsed>>
        BY <1>1, <2>4, <3>1 DEF C!ReadTenant, C!CollectTools, C!SaveTenant, C!Places
      <3>6. QED
        BY <1>1, <1>2, <3>2, <3>4, <3>5 DEF C!TypeOK
    <2>5. ASSUME C!ForceReload(a) \/ C!TakeConfig(a) \/ C!ReloadBuiltin(a)
          PROVE  Types
      <3>1. Ends \/ (edit[a].kind \in Switch \cup {"builtin"} /\ Goes({"config", "clear"}))
        BY <1>1, <2>2, <2>5 DEF C!ForceReload, C!TakeConfig, C!ReloadBuiltin, C!Goto,
                                C!Finish, Doing
      <3>2. \A b \in Admin : Doing(b)'
        BY ZenonT(30), <1>1, <2>1, <2>2, <3>1 DEF Doing, C!Busy
      <3>3. cached' \in C!Config /\ off' \subseteq Builtin /\ cfg' \in [C!Actor -> SUBSET Tool]
        BY <1>1, <2>5 DEF C!ForceReload, C!TakeConfig, C!ReloadBuiltin
      <3>4. /\ pc' \in [C!Actor -> C!Places] /\ edit' \in [Admin -> C!Edits \cup {None}]
            /\ UNCHANGED <<rows, servers, tenant, lock, hash, bucket, known, seen, found,
                           unloaded, overlapped, unsynced>>
        BY <1>1, <2>5, <3>1 DEF C!ForceReload, C!TakeConfig, C!ReloadBuiltin, C!Places
      <3>5. lapsed' \in BOOLEAN
        BY <1>2, <2>5, Zenon DEF C!ForceReload, C!TakeConfig, C!ReloadBuiltin
      <3>6. QED
        BY <1>1, <1>2, <3>2, <3>3, <3>4, <3>5 DEF C!TypeOK
    <2>6. ASSUME C!FindTools(a) \/ C!DropTools(a) PROVE Types
      <3>1. Ends \/ Goes({"row"})
        BY <1>1, <2>6 DEF C!FindTools, C!DropTools, C!Goto, C!Finish
      <3>2. \A b \in Admin : Doing(b)'
        BY ZenonT(30), <1>1, <2>1, <2>2, <3>1 DEF Doing, C!Busy
      <3>3. bucket' \subseteq Tool \cup Server /\ known' \subseteq Server
        BY <1>1, <2>2, <2>6 DEF C!FindTools, C!DropTools, C!Remove, Doing
      <3>4. /\ pc' \in [C!Actor -> C!Places] /\ edit' \in [Admin -> C!Edits \cup {None}]
            /\ UNCHANGED <<rows, servers, tenant, lock, cached, off, hash, seen, cfg, found,
                           unloaded, overlapped, unsynced, lapsed>>
        BY <1>1, <2>6, <3>1 DEF C!FindTools, C!DropTools, C!Places
      <3>5. QED
        BY <1>1, <1>2, <3>2, <3>3, <3>4 DEF C!TypeOK
    <2>7. ASSUME C!ReadServer(a) \/ C!SaveServer(a) PROVE Types
      <3>1. Ends \/ (edit[a].kind = "refresh" /\ Goes({"asking"}))
        BY <1>1, <2>7 DEF C!ReadServer, C!SaveServer, C!Goto, C!Finish
      <3>2. \A b \in Admin : Doing(b)'
        BY ZenonT(30), <1>1, <2>1, <2>2, <3>1 DEF Doing, C!Busy
      <3>3. servers' \subseteq Server /\ found' \in [Admin -> SUBSET Server]
        BY <1>1, <2>2, <2>7 DEF C!ReadServer, C!SaveServer, Doing
      <3>4. /\ pc' \in [C!Actor -> C!Places] /\ edit' \in [Admin -> C!Edits \cup {None}]
            /\ UNCHANGED <<rows, tenant, lock, cached, off, hash, bucket, known, seen, cfg,
                           unloaded, overlapped, unsynced, lapsed>>
        BY <1>1, <2>7, <3>1 DEF C!ReadServer, C!SaveServer, C!Places
      <3>5. QED
        BY <1>1, <1>2, <3>2, <3>3, <3>4 DEF C!TypeOK
    <2>8. ASSUME C!RequestFails(a) PROVE Types
      <3>1. Ends
        BY <2>8 DEF C!RequestFails, C!Goto, C!Finish
      <3>2. \A b \in Admin : Doing(b)'
        BY ZenonT(30), <1>1, <2>1, <2>2, <3>1 DEF Doing, C!Busy
      <3>3. seen' \in [Admin -> C!Config]
        BY <1>1, <2>8 DEF C!RequestFails, C!Empty, C!Config
      <3>4. /\ pc' \in [C!Actor -> C!Places] /\ edit' \in [Admin -> C!Edits \cup {None}]
            /\ UNCHANGED <<rows, servers, tenant, lock, cached, off, hash, bucket, known, cfg,
                           found, unloaded, overlapped, unsynced>>
        BY <1>1, <2>8, <3>1 DEF C!RequestFails, C!Places
      <3>5. lapsed' \in BOOLEAN
        BY <2>8, Zenon DEF C!RequestFails
      <3>6. QED
        BY <1>1, <1>2, <3>2, <3>3, <3>4, <3>5 DEF C!TypeOK
    <2>9. QED
      BY <1>4, <2>3, <2>4, <2>5, <2>6, <2>7, <2>8 DEF C!AdminStep
  <1>5. ASSUME NEW a \in C!Actor, C!ReloadStep(a) PROVE Types
    <2>1. CASE C!ClearTools(a) \/ C!QueryServers(a)
      BY <1>1, <1>2, <2>1 DEF C!ClearTools, C!QueryServers, C!Goto, C!TypeOK, C!Places, Doing, C!Busy
    <2>2. CASE C!LoadTools(a) \/ C!ReloadFails(a)
      <3>1. /\ bucket' \subseteq Tool \cup Server /\ hash' \subseteq Tool
            /\ cfg' \in [C!Actor -> SUBSET Tool] /\ unloaded' \subseteq Tool
        BY <1>1, <2>2 DEF C!LoadTools, C!ReloadFails
      <3>2. /\ lapsed' \in BOOLEAN /\ lock' \in C!Actor \cup {None}
            /\ pc[a] \in {"clear", "query", "load"}
            /\ UNCHANGED <<rows, servers, tenant, cached, off, known, seen, found, overlapped,
                           unsynced>>
        BY <1>1, <1>2, <2>2, Zenon DEF C!LoadTools, C!ReloadFails
      <3>3. \/ pc' = [pc EXCEPT ![a] = "mcp"] /\ a = Refresher /\ UNCHANGED edit
            \/ pc' = [pc EXCEPT ![a] = "done"] /\ a = Refresher /\ UNCHANGED edit
            \/ pc' = [pc EXCEPT ![a] = "builtin"] /\ a \in Admin /\ UNCHANGED edit
               /\ edit[a].kind = "builtin"
            \/ pc' = [pc EXCEPT ![a] = "done"] /\ a \in Admin
               /\ edit' = [edit EXCEPT ![a] = None]
        BY <2>2 DEF C!LoadTools, C!ReloadFails, C!AfterReload, C!Goto, C!Finish, C!Actor
      <3>4. \A d \in Admin : Doing(d)'
        BY <1>1, <3>2, <3>3 DEF Doing, C!Busy
      <3>5. pc' \in [C!Actor -> C!Places] /\ edit' \in [Admin -> C!Edits \cup {None}]
        BY <1>1, <3>3 DEF C!Places
      <3>6. QED
        BY <1>1, <1>2, <3>1, <3>2, <3>4, <3>5 DEF C!TypeOK
    <2>3. QED
      BY <1>5, <2>1, <2>2 DEF C!ReloadStep
  <1>6. CASE C!RefreshBegins \/ C!RefreshFails
    <2>1. overlapped' \in BOOLEAN
      BY <1>6, Zenon DEF C!RefreshBegins, C!RefreshFails, C!Begin
    <2>2. QED
      BY <1>1, <1>2, <1>6, <2>1 DEF C!RefreshBegins, C!RefreshFails, C!Begin, C!Goto,
         C!TypeOK, C!Places, Doing, C!Busy
  <1>7. CASE C!RefreshCompares \/ C!RefreshEnds
    BY <1>1, <1>2, <1>7 DEF C!RefreshCompares, C!RefreshEnds, C!Goto, C!TypeOK, C!Places, Doing, C!Busy
  <1>8. QED
    BY <1>3, <1>4, <1>5, <1>6, <1>7 DEF C!Next

\* One request at a time, and the next one when it has finished.
LEMMA AloneStep ==
    ASSUME C!TypeOK, Alone, C!Next, ~overlapped'
    PROVE  Alone' /\ ~overlapped
  <1> DEFINE Moves(a) == pc' = [pc EXCEPT ![a] = pc'[a]]
  <1>1. pc \in [C!Actor -> C!Places] /\ Admin \subseteq C!Actor /\ Refresher \in C!Actor
    BY DEF C!TypeOK, C!Actor
  <1>2. ASSUME NEW a \in C!Actor, NEW to, C!Begin(a, to)
        PROVE  Alone' /\ ~overlapped
    <2>1. ~overlapped /\ \A b \in C!Actor : ~C!Busy(b)
      BY <1>2, Zenon DEF C!Begin
    <2>2. pc' = [pc EXCEPT ![a] = to]
      BY <1>2 DEF C!Begin, C!Goto
    <2>3. QED
      BY <1>1, <2>1, <2>2 DEF Alone, C!Busy
  <1>3. ASSUME NEW a \in C!Actor, C!Busy(a), Moves(a), UNCHANGED overlapped
        PROVE  Alone' /\ ~overlapped
    BY <1>1, <1>3 DEF Alone, C!Busy
  <1>4. ASSUME NEW a \in Admin, C!AdminStep(a)
        PROVE  C!Busy(a) /\ Moves(a) /\ UNCHANGED overlapped
    BY <1>1, <1>4 DEF C!AdminStep, C!SaveRow, C!PutRow, C!ReadTenant, C!CollectTools,
                C!SaveTenant, C!RequestFails, C!ForceReload, C!TakeConfig, C!ReloadBuiltin,
                C!ToggleServer, C!FindTools, C!DropTools, C!DeleteServer, C!PutServer, C!ReadServer,
                C!SaveServer, C!Busy, C!Goto, C!Finish, C!historyVars
  <1>5. ASSUME NEW a \in C!Actor, C!ReloadStep(a)
        PROVE  C!Busy(a) /\ Moves(a) /\ UNCHANGED overlapped
    BY <1>1, <1>5 DEF C!ReloadStep, C!ClearTools, C!QueryServers, C!LoadTools,
                      C!ReloadFails, C!AfterReload, C!Busy, C!Goto, C!Finish, C!historyVars
  <1>6. C!RefreshCompares \/ C!RefreshEnds =>
          C!Busy(Refresher) /\ Moves(Refresher) /\ UNCHANGED overlapped
    BY <1>1 DEF C!RefreshCompares, C!RefreshEnds, C!Busy, C!Goto, C!historyVars
  <1>7. CASE \E a \in Admin : C!Ask(a)
    BY <1>1, <1>2, <1>7 DEF C!Ask
  <1>8. CASE C!RefreshBegins \/ C!RefreshFails
    BY <1>1, <1>2, <1>8 DEF C!RefreshBegins, C!RefreshFails
  <1>9. CASE \E a \in Admin : C!AdminStep(a)
    BY <1>1, <1>3, <1>4, <1>9
  <1>10. CASE \E a \in C!Actor : C!ReloadStep(a)
    BY <1>1, <1>3, <1>5, <1>10
  <1>11. CASE C!RefreshCompares \/ C!RefreshEnds
    BY <1>1, <1>3, <1>6, <1>11
  <1>12. QED
    BY <1>7, <1>8, <1>9, <1>10, <1>11 DEF C!Next

\* The request that is alone decides how far the copies are behind.
LEMMA AloneFollows ==
    ASSUME C!TypeOK, Alone, NEW a \in Admin, C!Busy(a),
           pc' = [pc EXCEPT ![a] = pc'[a]], C!Busy(a)' => Behind(a)', ~C!Busy(a)' => Agreed'
    PROVE  Followed'
  <1>1. /\ pc \in [C!Actor -> C!Places] /\ a \in C!Actor /\ Admin \subseteq C!Actor
        /\ Refresher \in C!Actor /\ a # Refresher
    BY ConfigAssumption DEF C!TypeOK, C!Actor
  <1>2. \A b \in C!Actor \ {a} : ~C!Busy(b)'
    BY <1>1 DEF Alone, C!Busy
  <1>3. QED
    BY <1>1, <1>2 DEF Followed

LEMMA FollowedStep ==
    ASSUME C!TypeOK, \A a \in Admin : Doing(a), Alone, Followed, C!Next,
           ~overlapped', ~unsynced', ~lapsed'
    PROVE  Followed'
  <1> USE DEF C!dbVars, C!memoryVars, C!actorVars, C!historyVars
  <1>1. /\ rows \subseteq Tool /\ servers \subseteq Server
        /\ tenant \in C!Config /\ cached \in C!Config
        /\ bucket \subseteq Tool \cup Server /\ known \subseteq Server
        /\ pc \in [C!Actor -> C!Places] /\ edit \in [Admin -> C!Edits \cup {None}]
        /\ seen \in [Admin -> C!Config] /\ cfg \in [C!Actor -> SUBSET Tool]
        /\ found \in [Admin -> SUBSET Server]
        /\ Admin \subseteq C!Actor /\ Refresher \in C!Actor /\ Refresher \notin Admin
        /\ Tool \cap Server = {}
    BY ConfigAssumption DEF C!TypeOK, C!Actor
  <1>2. ASSUME NEW a \in Admin, C!Ask(a) PROVE Followed'
    <2>1. PICK e \in C!Edits : edit' = [edit EXCEPT ![a] = e] /\ C!Begin(a, C!FirstStep(e.kind))
      BY <1>2 DEF C!Ask
    <2>2. /\ C!FirstStep(e.kind) \in {"row", "tenant", "drop"}
          /\ C!FirstStep(e.kind) = "row" => e.kind # "delete"
      BY <2>1, EditOf DEF C!FirstStep
    <2>3. \A b \in C!Actor : ~C!Busy(b)
      BY <2>1, Zenon DEF C!Begin
    <2>4. /\ pc' = [pc EXCEPT ![a] = C!FirstStep(e.kind)]
          /\ UNCHANGED <<rows, servers, tenant, cached, off, hash, bucket, known,
                         unloaded>>
      BY <1>2, <2>1 DEF C!Begin, C!Goto, C!Ask
    <2>5. Agreed
      BY <2>3 DEF Followed
    <2>6. Behind(a)'
      BY <1>1, <2>1, <2>2, <2>4, <2>5 DEF Behind, Agreed, Served
    <2>7. /\ \A b \in C!Actor \ {a} : ~C!Busy(b)' /\ a # Refresher
          /\ C!Busy(a)'
      BY <1>1, <2>2, <2>3, <2>4 DEF C!Busy
    <2>8. QED
      BY <1>1, <2>6, <2>7 DEF Followed
  <1>3. CASE C!RefreshBegins
    <2>1. \A b \in C!Actor : ~C!Busy(b)
      BY <1>3, Zenon DEF C!RefreshBegins, C!Begin
    <2>2. /\ pc' = [pc EXCEPT ![Refresher] = "reload"] /\ cached' = tenant
          /\ UNCHANGED <<rows, servers, tenant, off, hash, bucket, known, unloaded>>
      BY <1>3 DEF C!RefreshBegins, C!Begin, C!Goto
    <2>3. Agreed
      BY <2>1 DEF Followed
    <2>4. Agreed'
      BY <2>2, <2>3 DEF Agreed, Served
    <2>5. /\ \A b \in C!Actor \ {Refresher} : ~C!Busy(b)'
          /\ pc'[Refresher] = "reload" /\ C!Busy(Refresher)'
      BY <1>1, <2>1, <2>2 DEF C!Busy
    <2>6. QED
      BY <1>1, <2>4, <2>5 DEF Followed
  <1>4. CASE C!RefreshCompares \/ C!RefreshEnds
    <2>1. C!Busy(Refresher) /\ Agreed
      BY <1>4 DEF C!RefreshCompares, C!RefreshEnds, C!Busy, Followed
    <2>2. /\ UNCHANGED <<rows, servers, tenant, cached, off, hash, bucket, known, unloaded>>
          /\ pc' = [pc EXCEPT ![Refresher] = pc'[Refresher]]
          /\ pc'[Refresher] \in {"mcp", "done", "stuck"}
      BY <1>1, <1>4, <2>1 DEF C!RefreshCompares, C!RefreshEnds, C!Goto, Agreed
    <2>3. Agreed' /\ \A b \in C!Actor \ {Refresher} : ~C!Busy(b)'
      BY <1>1, <2>1, <2>2 DEF Agreed, Served, Alone, C!Busy
    <2>4. QED
      BY <1>1, <2>2, <2>3 DEF Followed, C!Busy
  <1>5. ASSUME NEW a \in Admin, C!Busy(a)
        PROVE  /\ Behind(a) /\ Doing(a)
               /\ edit[a].kind \in {"toggle", "delete", "put server", "refresh"} =>
                    edit[a].of \in Server
    BY <1>5, EditOf DEF Followed, Doing
  <1>6. ASSUME NEW a \in Admin, C!AdminStep(a) PROVE Followed'
    <2>1. C!Busy(a)
      BY <1>6 DEF C!AdminStep, C!SaveRow, C!PutRow, C!ReadTenant, C!CollectTools,
                  C!SaveTenant, C!RequestFails, C!ForceReload, C!TakeConfig, C!ReloadBuiltin,
                C!ToggleServer,
                  C!FindTools, C!DropTools, C!DeleteServer, C!PutServer, C!ReadServer,
                  C!SaveServer, C!Busy
    <2>2. /\ Behind(a) /\ Doing(a)
          /\ edit[a].kind \in {"toggle", "delete", "put server", "refresh"} =>
               edit[a].of \in Server
      BY <1>5, <2>1
    <2> DEFINE After == /\ pc' = [pc EXCEPT ![a] = pc'[a]]
                        /\ pc'[a] # "idle"
                        /\ IF pc'[a] = "done" THEN Agreed' ELSE Behind(a)'
    <2>3. After => Followed'
      BY <1>1, <2>1, AloneFollows DEF C!Busy
    <2> SUFFICES After
      BY <2>3
    <2>4. CASE C!SaveRow(a)
      BY <1>1, <2>2, <2>4 DEF C!SaveRow, C!Goto, Behind, Doing, Agreed, Served, Switch
    <2>5. CASE C!ReadTenant(a)
      <3>1. /\ pc' = [pc EXCEPT ![a] = pc'[a]] /\ pc[a] = "tenant"
            /\ \/ /\ edit[a].kind = "builtin" /\ pc'[a] = "save"
                  /\ seen'[a].tools = tenant.tools
               \/ edit[a].kind \in Switch /\ pc'[a] = "collect" /\ seen'[a] = tenant
            /\ UNCHANGED <<rows, servers, tenant, cached, off, hash, bucket, known, edit, unloaded>>
        <4>1. \A o : [tenant EXCEPT !.off = o].tools = tenant.tools
          BY <1>1 DEF C!Config
        <4>2. edit[a].kind \in Switch \cup {"builtin"} /\ pc[a] = "tenant"
          BY <2>2, <2>5 DEF C!ReadTenant, Doing
        <4>3. CASE edit[a].kind = "builtin"
          <5>1. \E o : seen' = [seen EXCEPT ![a] = [tenant EXCEPT !.off = o]]
            BY <2>5, <4>3, Zenon DEF C!ReadTenant
          <5>2. seen'[a].tools = tenant.tools
            BY <1>1, <4>1, <5>1
          <5>3. QED
            BY <1>1, <2>5, <4>2, <4>3, <5>2 DEF C!ReadTenant, C!Goto
        <4>4. CASE edit[a].kind \in Switch
          BY <1>1, <2>5, <4>2, <4>4 DEF C!ReadTenant, C!Goto, Switch
        <4>5. QED
          BY <4>2, <4>3, <4>4
      <3>2. QED
        BY <1>1, <2>2, <3>1 DEF Behind, Served, Switch
    <2>6. CASE C!CollectTools(a)
      BY <1>1, <2>2, <2>6 DEF C!CollectTools, C!Goto, Behind, Doing, Agreed, Served, Switch, C!Config
    <2>7. CASE C!SaveTenant(a)
      BY <1>1, <2>2, <2>7 DEF C!SaveTenant, C!Goto, Behind, Doing, Agreed, Served, Switch, C!Config
    <2>8. CASE C!ForceReload(a)
      BY <1>1, <2>2, <2>8 DEF C!ForceReload, C!Goto, Behind, Doing, Agreed, Served, Switch
    <2>9. CASE C!TakeConfig(a)
      BY <1>1, <2>2, <2>9 DEF C!TakeConfig, C!Goto, Behind, Doing, Agreed, Served, Switch
    <2>10. CASE C!ReloadBuiltin(a)
      BY <1>1, <2>2, <2>10 DEF C!ReloadBuiltin, C!Goto, Behind, Doing, Agreed, Served, Switch, C!Finish
    <2>11. CASE C!ToggleServer(a)
      BY <1>1, <2>2, <2>11 DEF C!ToggleServer, C!Goto, Behind, Doing, Agreed, Served, Switch, C!Toggled
    <2>12. CASE C!FindTools(a)
      <3>1. /\ pc[a] = "find" /\ edit[a].kind = "toggle" /\ edit[a].of \in Server \cap servers
            /\ pc' = [pc EXCEPT ![a] = "done"] /\ known' = known \cup {edit[a].of}
            /\ bucket' \subseteq bucket \cup {edit[a].of} /\ bucket \subseteq bucket'
            /\ UNCHANGED <<rows, servers, tenant, cached, off, hash, unloaded>>
        BY <2>2, <2>12 DEF C!FindTools, C!Goto, C!Finish, Behind, Doing
      <3>2. bucket' \cap Tool = bucket \cap Tool
        BY <1>1, <3>1
      <3>3. QED
        BY <1>1, <2>2, <3>1, <3>2 DEF Behind, Agreed, Served, Switch
    <2>13. CASE C!DropTools(a)
      <3>1. /\ pc[a] = "drop" /\ edit[a].kind \in {"toggle", "delete"} /\ edit[a].of \in Server
            /\ pc' = [pc EXCEPT ![a] = pc'[a]]
            /\ known' = known \ {edit[a].of} /\ bucket' = bucket \ {edit[a].of}
            /\ \/ pc'[a] = "row" /\ UNCHANGED edit
               \/ pc'[a] = "done"
            /\ UNCHANGED <<rows, servers, tenant, cached, off, hash, unloaded>>
        BY <1>1, <2>2, <2>13 DEF C!DropTools, C!Remove, C!Goto, C!Finish, Doing
      <3>2. /\ bucket' \cap Tool = bucket \cap Tool
            /\ Served' \subseteq servers /\ edit[a].of \notin Served'
        <4>1. Served \subseteq servers \cup {edit[a].of}
          BY <2>2, <3>1 DEF Behind
        <4>2. Served' = Served \ {edit[a].of}
          BY <3>1 DEF Served
        <4>3. QED
          BY <1>1, <3>1, <4>1, <4>2
      <3>3. QED
        BY <1>1, <2>2, <3>1, <3>2 DEF Behind, Agreed, Switch
    <2>14. CASE C!DeleteServer(a)
      BY <1>1, <2>2, <2>14 DEF C!DeleteServer, C!Goto, Behind, Doing, Agreed, Served, Switch, C!Finish
    <2>15. CASE C!ReadServer(a)
      BY <1>1, <2>2, <2>15 DEF C!ReadServer, C!Goto, Behind, Doing, Agreed, Served, Switch
    <2>16. CASE C!SaveServer(a)
      BY <1>1, <2>2, <2>16 DEF C!SaveServer, C!Goto, Behind, Doing, Agreed, Served, Switch, C!Finish
    <2>17. ~(C!PutRow(a) \/ C!PutServer(a))
      BY Zenon DEF C!PutRow, C!PutServer
    <2>18. CASE C!RequestFails(a)
      <3>1. /\ pc[a] = "row" /\ pc' = [pc EXCEPT ![a] = "done"]
            /\ UNCHANGED <<rows, servers, tenant, cached, off, hash, bucket, known, unloaded>>
        <4>1. pc[a] = "row"
          BY <2>18, Zenon DEF C!RequestFails
        <4>2. QED
          BY <2>18, <4>1 DEF C!RequestFails, C!Goto, C!Finish
      <3>2. QED
        BY <1>1, <2>2, <3>1 DEF Behind, Agreed, Served, Switch
    <2>19. QED
      BY <1>6, <2>4, <2>5, <2>6, <2>7, <2>8, <2>9, <2>10, <2>11, <2>12, <2>13, <2>14, <2>15, <2>16, <2>17, <2>18 DEF C!AdminStep
  <1>7. ASSUME NEW a \in C!Actor, C!ReloadStep(a) PROVE Followed'
    <2>1. C!Busy(a) /\ pc[a] \in {"clear", "query", "load"}
      BY <1>7 DEF C!ReloadStep, C!ClearTools, C!QueryServers, C!LoadTools, C!ReloadFails, C!AfterReload, C!Busy
    <2>2. a \in Admin /\ a # Refresher
      BY <1>1, <2>1 DEF Followed, C!Actor
    <2>3. Behind(a) /\ Doing(a)
      BY <1>5, <2>1, <2>2
    <2> DEFINE After == /\ pc' = [pc EXCEPT ![a] = pc'[a]]
                        /\ pc'[a] # "idle"
                        /\ IF pc'[a] = "done" THEN Agreed' ELSE Behind(a)'
    <2>4. After => Followed'
      BY <1>1, <2>1, <2>2, AloneFollows DEF C!Busy
    <2>5. CASE C!ClearTools(a)
      BY <1>1, <2>2, <2>3, <2>4, <2>5 DEF C!ClearTools, C!Goto, Behind, Doing, Agreed, Served, Switch
    <2>6. CASE C!QueryServers(a)
      BY <1>1, <2>2, <2>3, <2>4, <2>6 DEF C!QueryServers, C!Goto, Behind, Doing, Agreed, Served, Switch
    <2>7. CASE C!LoadTools(a)
      <3>1. PICK up \in SUBSET known, made \in SUBSET cfg[a] :
              bucket' = bucket \cup up \cup made /\ unloaded' = cfg[a] \ made
        BY <2>7 DEF C!LoadTools
      <3>2. /\ pc[a] = "load" /\ hash' = rows /\ cfg[a] = rows /\ bucket \cap Tool = {}
            /\ UNCHANGED <<rows, servers, tenant, cached, off, known>>
        BY <2>3, <2>7 DEF C!LoadTools, Behind
      <3>3. bucket' \cap Tool = rows \ unloaded' /\ Served' \subseteq Served
        BY <1>1, <3>1, <3>2 DEF Served
      <3>4. /\ pc' = [pc EXCEPT ![a] = pc'[a]]
            /\ \/ pc'[a] = "builtin" /\ edit[a].kind = "builtin" /\ UNCHANGED edit
               \/ pc'[a] = "done" /\ edit[a].kind # "builtin"
        BY <1>1, <2>2, <2>7 DEF C!LoadTools, C!AfterReload, C!Goto, C!Finish
      <3>5. /\ tenant.tools = rows /\ cached = tenant /\ Served \subseteq servers
            /\ off = tenant.off \/ edit[a].kind = "builtin"
        BY <2>3, <3>2 DEF Behind
      <3>6. After
        BY <3>2, <3>3, <3>4, <3>5 DEF Behind, Agreed, Switch
      <3>7. QED
        BY <2>4, <3>6
    <2>8. ~C!ReloadFails(a)
      BY Zenon DEF C!ReloadFails
    <2>9. QED
      BY <1>7, <2>5, <2>6, <2>7, <2>8 DEF C!ReloadStep
  <1>8. CASE C!RefreshFails
    <2>1. \A b \in C!Actor : ~C!Busy(b)
      BY <1>8, Zenon DEF C!RefreshFails, C!Begin
    <2>2. /\ pc' = [pc EXCEPT ![Refresher] = "done"]
          /\ UNCHANGED <<rows, servers, tenant, cached, off, hash, bucket, known, unloaded>>
      BY <1>8 DEF C!RefreshFails, C!Begin, C!Goto
    <2>3. Agreed'
      BY <2>1, <2>2 DEF Followed, Agreed, Served
    <2>4. \A b \in C!Actor : ~C!Busy(b)'
      BY <1>1, <2>1, <2>2 DEF C!Busy
    <2>5. QED
      BY <1>1, <2>3, <2>4 DEF Followed
  <1>9. QED
    BY <1>2, <1>3, <1>4, <1>6, <1>7, <1>8 DEF C!Next

LEMMA CatalogInit == ASSUME C!Init PROVE CatalogInv
  <1>1. C!TypeOK
    <2>1. overlapped \in BOOLEAN /\ unsynced \in BOOLEAN /\ lapsed \in BOOLEAN
      BY Zenon DEF C!Init
    <2>2. /\ C!Empty \in C!Config /\ tenant \in C!Config
          /\ pc \in [C!Actor -> C!Places]
      BY DEF C!Init, C!Empty, C!Config, C!Places
    <2>3. QED
      BY <2>1, <2>2 DEF C!Init, C!TypeOK
  <1>2. \A a \in C!Actor : pc[a] = "idle" /\ ~C!Busy(a)
    BY DEF C!Init, C!Busy
  <1>3. \A a \in Admin : Doing(a)
    BY <1>2 DEF Doing, C!Actor
  <1>4. Agreed
    BY ConfigAssumption DEF C!Init, Agreed, Served
  <1>5. QED
    BY <1>1, <1>2, <1>3, <1>4 DEF CatalogInv, Alone, Followed, C!Actor

LEMMA CatalogStep == ASSUME CatalogInv, [C!Next]_(C!catalogVars) PROVE CatalogInv'
  <1>1. CASE C!Next
    <2>1. C!TypeOK' /\ \A a \in Admin : Doing(a)'
      BY <1>1, CatalogTypeStep DEF CatalogInv
    <2>2. (overlapped => overlapped') /\ (unsynced => unsynced') /\ (lapsed => lapsed')
      <3>1. (\E a \in C!Actor : \E to : C!Begin(a, to)) \/ UNCHANGED overlapped
        BY <1>1 DEF C!Next, C!Ask, C!AdminStep, C!SaveRow, C!PutRow, C!ReadTenant,
             C!CollectTools, C!SaveTenant, C!RequestFails, C!ForceReload, C!TakeConfig,
             C!ReloadBuiltin, C!ToggleServer, C!FindTools, C!DropTools, C!DeleteServer, C!PutServer,
             C!ReadServer, C!SaveServer, C!ReloadStep, C!ClearTools, C!QueryServers,
             C!LoadTools, C!ReloadFails, C!RefreshBegins, C!RefreshFails, C!RefreshCompares, C!RefreshEnds,
             C!historyVars, C!Actor
      <3>2. overlapped => overlapped'
        BY <3>1, Zenon DEF C!Begin
      <3>3. unsynced' = TRUE \/ unsynced' = unsynced
        BY <1>1 DEF C!Next, C!Ask, C!AdminStep, C!SaveRow, C!PutRow, C!ReadTenant,
             C!CollectTools, C!SaveTenant, C!RequestFails, C!ForceReload, C!TakeConfig,
             C!ReloadBuiltin, C!ToggleServer, C!FindTools, C!DropTools, C!DeleteServer, C!PutServer,
             C!ReadServer, C!SaveServer, C!ReloadStep, C!ClearTools, C!QueryServers,
             C!LoadTools, C!ReloadFails, C!RefreshBegins, C!RefreshFails, C!RefreshCompares, C!RefreshEnds,
             C!historyVars
      <3>4. unsynced => unsynced'
        BY <3>3
      <3>5. lapsed => lapsed'
        BY <1>1, Zenon DEF C!Next, C!Ask, C!AdminStep, C!SaveRow, C!PutRow, C!ReadTenant,
             C!CollectTools, C!SaveTenant, C!RequestFails, C!ForceReload, C!TakeConfig,
             C!ReloadBuiltin, C!ToggleServer, C!FindTools, C!DropTools, C!DeleteServer,
             C!PutServer, C!ReadServer, C!SaveServer, C!ReloadStep, C!ClearTools,
             C!QueryServers, C!LoadTools, C!ReloadFails, C!RefreshBegins, C!RefreshFails,
             C!RefreshCompares, C!RefreshEnds, C!historyVars
      <3>6. QED
        BY <3>2, <3>4, <3>5
    <2>3. ~overlapped' => Alone'
      BY <1>1, <2>2, AloneStep DEF CatalogInv
    <2>4. ~overlapped' /\ ~unsynced' /\ ~lapsed' => Followed'
      BY <1>1, <2>2, FollowedStep DEF CatalogInv
    <2>5. QED
      BY <2>1, <2>3, <2>4 DEF CatalogInv
  <1>2. CASE UNCHANGED C!catalogVars
    BY <1>2 DEF C!catalogVars, C!dbVars, C!memoryVars, C!actorVars, C!historyVars,
                CatalogInv, C!TypeOK, Doing, Alone, Followed, Agreed, Behind, Served, C!Busy
  <1>3. QED
    BY <1>1, <1>2

LEMMA CatalogSafe == CatalogInv => C!CatalogFollowsRows
  BY DEF CatalogInv, Followed, Agreed, Served, C!CatalogFollowsRows

LEMMA ModelsHold == ConfigSpec => []ModelInv
  <1>1. ConfigInit => ModelInv
    BY ModelInit DEF ConfigInit
  <1>2. [ConfigNext]_configVars => [L!Next]_(L!llmVars)
    BY DEF ConfigNext, configVars, llmVars, L!llmVars, L!rowVars, L!adminVars,
           L!talkVars, L!pastVars
  <1>3. ModelInv /\ [ConfigNext]_configVars => ModelInv'
    BY <1>2, ModelStep
  <1>4. QED
    BY <1>1, <1>3, PTL DEF ConfigSpec

LEMMA CatalogHolds == ConfigSpec => []CatalogInv
  <1>1. ConfigInit => CatalogInv
    BY CatalogInit DEF ConfigInit
  <1>2. [ConfigNext]_configVars => [C!Next]_(C!catalogVars)
    BY DEF ConfigNext, configVars, catalogVars, C!catalogVars, C!dbVars, C!memoryVars,
           C!actorVars, C!historyVars
  <1>3. CatalogInv /\ [ConfigNext]_configVars => CatalogInv'
    BY <1>2, CatalogStep
  <1>4. QED
    BY <1>1, <1>3, PTL DEF ConfigSpec

\* reload_manager.py, admin_config_sync.py: unless requests have overlapped or
\* one has bypassed or left out the sync, the tools of the tenant are those of
\* the rows and the model of a purpose is the one that is active, in the rows,
\* the configuration and the caches.
THEOREM CatalogIsFollowed == ConfigSpec => []CatalogFollowsRows
  <1>1. CatalogInv /\ ModelInv => CatalogFollowsRows
    BY CatalogSafe, ModelSafe DEF CatalogFollowsRows
  <1>2. QED
    BY <1>1, CatalogHolds, ModelsHold, PTL

-----------------------------------------------------------------------------
(* Hooks.                                                                  *)

\* What resolve_path goes through, level by level.
IsLevels(level, data, path) ==
    /\ level[0] = {data}
    /\ \A i \in 1 .. Len(path) :
         level[i] = UNION {H!Descend(x, path[i]) : x \in level[i - 1]}

LEMMA Levels ==
    ASSUME NEW data, NEW path, Len(path) \in Nat
    PROVE  \E level : /\ H!ResolvePath(data, path) = level[Len(path)]
                      /\ IsLevels(level, data, path)
  <1> DEFINE first == {data}
             Turn(set, i) == UNION {H!Descend(x, path[i]) : x \in set}
             Is(f, n) == f = [i \in 0 .. n |-> IF i = 0 THEN first ELSE Turn(f[i - 1], i)]
             level == CHOOSE level : Is(level, Len(path))
  <1>1. H!ResolvePath(data, path) = level[Len(path)]
    BY Zenon DEF H!ResolvePath
  <1> HIDE DEF first, Turn, level
  <1>2. \A n \in Nat : \E f : Is(f, n)
    <2> DEFINE T == {n \in Nat : \E f : Is(f, n)}
    <2>1. 0 \in T
      <3>1. Is([i \in 0 .. 0 |-> first], 0)
        OBVIOUS
      <3>2. QED
        BY <3>1
    <2>2. ASSUME NEW n \in T PROVE n + 1 \in T
      <3>1. PICK f : Is(f, n)
        OBVIOUS
      <3> DEFINE g == [i \in 0 .. n + 1 |-> IF i = n + 1 THEN Turn(f[n], n + 1) ELSE f[i]]
      <3>2. n \in Nat /\ n + 1 \in Nat
        OBVIOUS
      <3>3. Is(g, n + 1)
        BY <3>1, <3>2
      <3> HIDE DEF g
      <3>4. QED
        BY <3>2, <3>3
    <2> HIDE DEF T
    <2>3. T \in SUBSET Nat
      BY DEF T
    <2>4. T = Nat
      BY <2>1, <2>2, <2>3, SetInduction
    <2>5. QED
      BY <2>4 DEF T
  <1>3. Is(level, Len(path))
    <2>1. \E f : Is(f, Len(path))
      BY <1>2
    <2> HIDE DEF Is
    <2>2. QED
      BY <2>1, Zenon DEF level
  <1>4. level[0] = first /\ \A i \in 1 .. Len(path) : level[i] = Turn(level[i - 1], i)
    BY <1>3
  <1>5. QED
    BY <1>1, <1>4, Zenon DEF first, Turn, IsLevels

\* The values of a tree down to some depth, depth by depth.
IsDepths(within, data, depth) ==
    /\ within[0] = {data}
    /\ \A i \in 1 .. depth :
         within[i] = within[i - 1] \cup UNION {H!Below(x) : x \in within[i - 1]}

LEMMA Depths ==
    ASSUME NEW data, NEW depth \in Nat
    PROVE  \E within : /\ H!Subtrees(data, depth) = within[depth]
                       /\ IsDepths(within, data, depth)
  <1> DEFINE first == {data}
             Turn(set) == set \cup UNION {H!Below(x) : x \in set}
             Is(f, n) == f = [i \in 0 .. n |-> IF i = 0 THEN first ELSE Turn(f[i - 1])]
             within == CHOOSE within : Is(within, depth)
  <1>1. H!Subtrees(data, depth) = within[depth]
    BY Zenon DEF H!Subtrees
  <1> HIDE DEF first, Turn, within
  <1>2. \A n \in Nat : \E f : Is(f, n)
    <2> DEFINE T == {n \in Nat : \E f : Is(f, n)}
    <2>1. 0 \in T
      <3>1. Is([i \in 0 .. 0 |-> first], 0)
        OBVIOUS
      <3>2. QED
        BY <3>1
    <2>2. ASSUME NEW n \in T PROVE n + 1 \in T
      <3>1. PICK f : Is(f, n)
        OBVIOUS
      <3> DEFINE g == [i \in 0 .. n + 1 |-> IF i = n + 1 THEN Turn(f[n]) ELSE f[i]]
      <3>2. n \in Nat /\ n + 1 \in Nat
        OBVIOUS
      <3>3. Is(g, n + 1)
        BY <3>1, <3>2
      <3> HIDE DEF g
      <3>4. QED
        BY <3>2, <3>3
    <2> HIDE DEF T
    <2>3. T \in SUBSET Nat
      BY DEF T
    <2>4. T = Nat
      BY <2>1, <2>2, <2>3, SetInduction
    <2>5. QED
      BY <2>4 DEF T
  <1>3. Is(within, depth)
    <2>1. \E f : Is(f, depth)
      BY <1>2
    <2> HIDE DEF Is
    <2>2. QED
      BY <2>1, Zenon DEF within
  <1>4. within[0] = first /\ \A i \in 1 .. depth : within[i] = Turn(within[i - 1])
    BY <1>3
  <1>5. QED
    BY <1>1, <1>4, Zenon DEF first, Turn, IsDepths

LEMMA DescendsBelow == \A x, part : H!Descend(x, part) \subseteq H!Below(x)
  BY DEF H!Descend, H!Below

\* A chain of values along a path is one the path leads to.
Along(chain, path, n) == \A i \in 1 .. n : chain[i] \in H!Descend(chain[i - 1], path[i])

LEMMA ForbiddenIs ==
    ASSUME NEW rule, NEW data
    PROVE  H!Forbidden(rule, data) <=>
             \E chain \in [0 .. Len(rule.path) -> H!Subtrees(data, Len(rule.path))] :
               /\ chain[0] = data /\ Along(chain, rule.path, Len(rule.path))
               /\ H!Violates(chain[Len(rule.path)], rule.op, rule.target)
  <1>1. \A x, part, y : y \in H!Descend(x, part) <=>
            \/ /\ part = "*" /\ x.kind = "array"
               /\ \E j \in DOMAIN x.items : y = x.items[j]
            \/ /\ part # "*" /\ x.kind = "object"
               /\ part \in DOMAIN x.at /\ y = x.at[part]
    BY DEF H!Descend, H!Elements
  <1>2. \A chain, i : chain[i] \in H!Descend(chain[i - 1], rule.path[i]) <=>
             LET x == chain[i - 1] IN
             \/ /\ rule.path[i] = "*" /\ x.kind = "array"
                /\ \E j \in DOMAIN x.items : chain[i] = x.items[j]
             \/ /\ rule.path[i] # "*" /\ x.kind = "object"
                /\ rule.path[i] \in DOMAIN x.at /\ chain[i] = x.at[rule.path[i]]
    BY <1>1
  <1>3. \A chain : Along(chain, rule.path, Len(rule.path)) <=>
          \A i \in 1 .. Len(rule.path) :
             LET x == chain[i - 1] IN
             \/ /\ rule.path[i] = "*" /\ x.kind = "array"
                /\ \E j \in DOMAIN x.items : chain[i] = x.items[j]
             \/ /\ rule.path[i] # "*" /\ x.kind = "object"
                /\ rule.path[i] \in DOMAIN x.at /\ chain[i] = x.at[rule.path[i]]
    BY <1>2, Zenon DEF Along
  <1>4. QED
    BY <1>3, Zenon DEF H!Forbidden

\* tool_rule_deny_hook.py:44-113: a rule that triggers is one that forbids.  The
\* resolver goes through the values level by level; any chain of values along
\* the path is in the levels, and any value in a level ends such a chain.
THEOREM RulesAreExact ==
    ASSUME NEW rule, Len(rule.path) \in Nat, NEW data, data.kind # "unparsed"
    PROVE  H!Denied(rule, data) <=> H!Forbidden(rule, data)
  <1> DEFINE path == rule.path
             n == Len(rule.path)
  <1>1. PICK level : H!ResolvePath(data, path) = level[n] /\ IsLevels(level, data, path)
    BY Levels
  <1>2. PICK within : H!Subtrees(data, n) = within[n] /\ IsDepths(within, data, n)
    BY Depths
  <1> DEFINE Chains(i, x) == \E chain \in [0 .. i -> within[i]] :
                               chain[0] = data /\ Along(chain, path, i) /\ chain[i] = x
  <1> HIDE DEF path, n
  <1>3. n \in Nat
    BY DEF n
  <1>4. ASSUME NEW chain, chain[0] = data, Along(chain, path, n)
        PROVE  chain[n] \in level[n]
    <2> DEFINE T == {i \in Nat : i <= n => chain[i] \in level[i]}
    <2>1. 0 \in T
      BY <1>1, <1>4 DEF IsLevels
    <2>2. ASSUME NEW i \in T PROVE i + 1 \in T
      <3>1. CASE i + 1 <= n
        <4>1. i + 1 \in 1 .. n /\ (i + 1) - 1 = i /\ chain[i] \in level[i]
          BY <1>3, <3>1
        <4>2. chain[i + 1] \in H!Descend(chain[i], path[i + 1])
          BY <1>4, <4>1 DEF Along
        <4>3. level[i + 1] = UNION {H!Descend(x, path[i + 1]) : x \in level[i]}
          BY <1>1, <4>1 DEF IsLevels, n, path
        <4>4. chain[i + 1] \in level[i + 1]
          BY <4>1, <4>2, <4>3
        <4>5. QED
          BY <4>4
      <3>2. QED
        BY <3>1
    <2> HIDE DEF T
    <2>3. T \in SUBSET Nat
      BY DEF T
    <2>4. T = Nat
      BY <2>1, <2>2, <2>3, SetInduction
    <2>5. QED
      BY <1>3, <2>4 DEF T
  <1>5. ASSUME NEW x \in level[n] PROVE Chains(n, x)
    <2> DEFINE T == {i \in Nat : i <= n => \A y \in level[i] : Chains(i, y)}
    <2>1. 0 \in T
      <3>1. \A y \in level[0] : y = data
        BY <1>1 DEF IsLevels
      <3> DEFINE chain == [i \in 0 .. 0 |-> data]
      <3>2. chain \in [0 .. 0 -> within[0]] /\ chain[0] = data /\ Along(chain, path, 0)
        BY <1>2 DEF Along, IsDepths
      <3> HIDE DEF chain
      <3>3. Chains(0, data)
        BY <3>2
      <3> HIDE DEF Chains
      <3>4. QED
        BY <3>1, <3>3
    <2>2. ASSUME NEW i \in T PROVE i + 1 \in T
      <3> SUFFICES ASSUME i + 1 <= n, NEW y \in level[i + 1] PROVE Chains(i + 1, y)
        OBVIOUS
      <3>1. i \in Nat /\ i + 1 \in 1 .. n /\ (i + 1) - 1 = i
        BY <1>3
      <3>2. PICK x0 \in level[i] : y \in H!Descend(x0, path[i + 1])
        <4>1. level[i + 1] = UNION {H!Descend(z, path[i + 1]) : z \in level[i]}
          BY <1>1, <3>1 DEF IsLevels, n, path
        <4>2. QED
          BY <4>1
      <3>3. PICK chain \in [0 .. i -> within[i]] :
              chain[0] = data /\ Along(chain, path, i) /\ chain[i] = x0
        BY <1>3, <3>1
      <3>4. /\ within[i] \subseteq within[i + 1] /\ y \in within[i + 1]
        <4>1. within[i + 1] = within[i] \cup UNION {H!Below(z) : z \in within[i]}
          BY <1>2, <3>1 DEF IsDepths
        <4>2. x0 \in within[i] /\ y \in H!Below(x0)
          BY <3>1, <3>2, <3>3, DescendsBelow
        <4>3. QED
          BY <4>1, <4>2
      <3> DEFINE longer == [k \in 0 .. i + 1 |-> IF k = i + 1 THEN y ELSE chain[k]]
      <3>5. longer \in [0 .. i + 1 -> within[i + 1]]
        BY <3>1, <3>3, <3>4
      <3>6. /\ longer[0] = data /\ longer[i + 1] = y /\ longer[i] = x0
            /\ \A k \in 1 .. i : longer[k] = chain[k] /\ longer[k - 1] = chain[k - 1]
        BY <3>1, <3>3
      <3> HIDE DEF longer
      <3>7. Along(longer, path, i + 1)
        <4>1. \A k \in 1 .. i : longer[k] \in H!Descend(longer[k - 1], path[k])
          BY <3>3, <3>6 DEF Along
        <4>2. longer[i + 1] \in H!Descend(longer[(i + 1) - 1], path[i + 1])
          BY <3>1, <3>2, <3>6
        <4>3. 1 .. i + 1 = (1 .. i) \cup {i + 1}
          BY <3>1
        <4>4. QED
          BY <4>1, <4>2, <4>3 DEF Along
      <3>8. QED
        BY <3>5, <3>6, <3>7
    <2> HIDE DEF T
    <2>3. T \in SUBSET Nat
      BY DEF T
    <2>4. T = Nat
      BY <2>1, <2>2, <2>3, SetInduction
    <2>5. QED
      BY <1>3, <2>4 DEF T
  <1>6. H!Denied(rule, data) <=>
          \E x \in level[n] : H!Violates(x, rule.op, rule.target)
    BY <1>1 DEF H!Denied, path
  <1>7. H!Forbidden(rule, data) <=>
          \E chain \in [0 .. n -> within[n]] :
            /\ chain[0] = data /\ Along(chain, path, n)
            /\ H!Violates(chain[n], rule.op, rule.target)
    BY <1>2, ForbiddenIs DEF path, n
  <1>8. QED
    BY <1>4, <1>5, <1>6, <1>7

\* What is kept of a prefix, element by element.
LEMMA KeptIs ==
    ASSUME NEW sequence, Len(sequence) \in Nat, NEW set
    PROVE  LET kept == H!Kept(sequence, set) IN
           /\ kept[0] = <<>>
           /\ \A i \in 1 .. Len(sequence) :
                kept[i] = IF sequence[i] \in set THEN Append(kept[i - 1], sequence[i])
                          ELSE kept[i - 1]
  <1> DEFINE first == <<>>
             Turn(sofar, i) == IF sequence[i] \in set THEN Append(sofar, sequence[i]) ELSE sofar
             Is(f, n) == f = [i \in 0 .. n |-> IF i = 0 THEN first ELSE Turn(f[i - 1], i)]
             kept == CHOOSE kept : Is(kept, Len(sequence))
  <1>1. H!Kept(sequence, set) = kept
    BY Zenon DEF H!Kept
  <1> HIDE DEF first, Turn, kept
  <1>2. \A n \in Nat : \E f : Is(f, n)
    <2> DEFINE T == {n \in Nat : \E f : Is(f, n)}
    <2>1. 0 \in T
      <3>1. Is([i \in 0 .. 0 |-> first], 0)
        OBVIOUS
      <3>2. QED
        BY <3>1
    <2>2. ASSUME NEW n \in T PROVE n + 1 \in T
      <3>1. PICK f : Is(f, n)
        OBVIOUS
      <3> DEFINE g == [i \in 0 .. n + 1 |-> IF i = n + 1 THEN Turn(f[n], n + 1) ELSE f[i]]
      <3>2. n \in Nat /\ n + 1 \in Nat
        OBVIOUS
      <3>3. Is(g, n + 1)
        BY <3>1, <3>2
      <3> HIDE DEF g
      <3>4. QED
        BY <3>2, <3>3
    <2> HIDE DEF T
    <2>3. T \in SUBSET Nat
      BY DEF T
    <2>4. T = Nat
      BY <2>1, <2>2, <2>3, SetInduction
    <2>5. QED
      BY <2>4 DEF T
  <1>3. Is(kept, Len(sequence))
    <2>1. \E f : Is(f, Len(sequence))
      BY <1>2
    <2> HIDE DEF Is
    <2>2. QED
      BY <2>1, Zenon DEF kept
  <1>4. kept[0] = first /\ \A i \in 1 .. Len(sequence) : kept[i] = Turn(kept[i - 1], i)
    BY <1>3
  <1>5. QED
    BY <1>1, <1>4, Zenon DEF first, Turn

\* What is kept are the elements in the set, each as often as it was there.
LEMMA KeptFacts ==
    ASSUME NEW Q, NEW sequence \in Seq(Q), NEW set, NEW n \in 0 .. Len(sequence)
    PROVE  LET kept == H!Kept(sequence, set)[n] IN
           /\ kept \in Seq(Q)
           /\ \A j \in DOMAIN kept : kept[j] \in set /\ \E i \in 1 .. n : kept[j] = sequence[i]
           /\ \A i \in 1 .. n : sequence[i] \in set => \E j \in DOMAIN kept : kept[j] = sequence[i]
           /\ (\A i, j \in DOMAIN sequence : sequence[i] = sequence[j] => i = j) =>
                \A i, j \in DOMAIN kept : kept[i] = kept[j] => i = j
  <1> DEFINE kept == H!Kept(sequence, set)
             Typed(m) == kept[m] \in Seq(Q)
             Sorted(m) == \A j \in DOMAIN kept[m] :
                            kept[m][j] \in set /\ \E i \in 1 .. m : kept[m][j] = sequence[i]
             All(m) == \A i \in 1 .. m : sequence[i] \in set =>
                         \E j \in DOMAIN kept[m] : kept[m][j] = sequence[i]
             Unlike(m) == (\A i, j \in DOMAIN sequence : sequence[i] = sequence[j] => i = j) =>
                            \A i, j \in DOMAIN kept[m] : kept[m][i] = kept[m][j] => i = j
             T == {m \in Nat : m <= Len(sequence) =>
                                 Typed(m) /\ Sorted(m) /\ All(m) /\ Unlike(m)}
  <1>1. Len(sequence) \in Nat /\ DOMAIN sequence = 1 .. Len(sequence)
    OBVIOUS
  <1>2. /\ kept[0] = <<>>
        /\ \A i \in 1 .. Len(sequence) :
             kept[i] = IF sequence[i] \in set THEN Append(kept[i - 1], sequence[i])
                       ELSE kept[i - 1]
    BY <1>1, KeptIs
  <1> HIDE DEF kept
  <1>3. 0 \in T
    <2>1. kept[0] \in Seq(Q) /\ DOMAIN kept[0] = {} /\ 1 .. 0 = {}
      BY <1>2
    <2>2. QED
      BY <2>1
  <1>4. ASSUME NEW m \in T PROVE m + 1 \in T
    <2> SUFFICES ASSUME m + 1 <= Len(sequence)
                 PROVE  Typed(m + 1) /\ Sorted(m + 1) /\ All(m + 1) /\ Unlike(m + 1)
      OBVIOUS
    <2>1. /\ m \in Nat /\ m + 1 \in 1 .. Len(sequence) /\ (m + 1) - 1 = m
          /\ Typed(m) /\ Sorted(m) /\ All(m) /\ Unlike(m)
          /\ 1 .. m + 1 = (1 .. m) \cup {m + 1}
      BY <1>1
    <2> DEFINE x == sequence[m + 1]
    <2>2. x \in Q
      BY <2>1
    <2>3. CASE x \notin set
      <3>1. kept[m + 1] = kept[m]
        BY <1>2, <2>1, <2>3
      <3>2. QED
        BY <2>1, <2>3, <3>1
    <2>4. CASE x \in set
      <3>1. kept[m + 1] = Append(kept[m], x)
        BY <1>2, <2>1, <2>4
      <3>2. PICK k \in Nat : /\ kept[m + 1] \in Seq(Q) /\ k = Len(kept[m])
                             /\ DOMAIN kept[m] = 1 .. k /\ DOMAIN kept[m + 1] = 1 .. k + 1
                             /\ \A i \in 1 .. k : kept[m + 1][i] = kept[m][i]
                             /\ kept[m + 1][k + 1] = x
        <4>1. /\ Append(kept[m], x) \in Seq(Q)
              /\ DOMAIN Append(kept[m], x) = 1 .. Len(kept[m]) + 1
              /\ \A i \in DOMAIN kept[m] : Append(kept[m], x)[i] = kept[m][i]
              /\ Append(kept[m], x)[Len(kept[m]) + 1] = x
          BY <2>1, <2>2, AppendIs
        <4>2. Len(kept[m]) \in Nat /\ DOMAIN kept[m] = 1 .. Len(kept[m])
          BY <2>1
        <4>3. QED
          BY <3>1, <4>1, <4>2, Zenon
      <3>3. \A i \in 1 .. m + 1 : i \in 1 .. m \/ i = m + 1
        BY <2>1
      <3>4. \A i \in 1 .. k + 1 : i \in 1 .. k \/ i = k + 1
        OBVIOUS
      <3> HIDE DEF x
      <3>5. Sorted(m + 1)
        <4> SUFFICES ASSUME NEW j \in 1 .. k + 1
                     PROVE  /\ kept[m + 1][j] \in set
                            /\ \E i \in 1 .. m + 1 : kept[m + 1][j] = sequence[i]
          BY <3>2
        <4>1. CASE j \in 1 .. k
          <5>1. PICK i \in 1 .. m : kept[m][j] = sequence[i] /\ kept[m][j] \in set
            BY <2>1, <3>2, <4>1
          <5>2. i \in 1 .. m + 1
            BY <2>1
          <5>3. QED
            BY <3>2, <4>1, <5>1, <5>2
        <4>2. CASE j = k + 1
          BY <2>1, <2>4, <3>2, <4>2 DEF x
        <4>3. QED
          BY <3>4, <4>1, <4>2
      <3>6. All(m + 1)
        <4> SUFFICES ASSUME NEW i \in 1 .. m + 1, sequence[i] \in set
                     PROVE  \E j \in DOMAIN kept[m + 1] : kept[m + 1][j] = sequence[i]
          OBVIOUS
        <4>1. CASE i \in 1 .. m
          <5>1. PICK j \in 1 .. k : kept[m][j] = sequence[i]
            BY <2>1, <3>2, <4>1
          <5>2. j \in 1 .. k + 1
            OBVIOUS
          <5>3. QED
            BY <3>2, <5>1, <5>2
        <4>2. CASE i = m + 1
          <5>1. k + 1 \in 1 .. k + 1
            OBVIOUS
          <5>2. QED
            BY <3>2, <4>2, <5>1 DEF x
        <4>3. QED
          BY <3>3, <4>1, <4>2
      <3>7. Unlike(m + 1)
        <4> SUFFICES ASSUME \A i, j \in DOMAIN sequence : sequence[i] = sequence[j] => i = j,
                            NEW i \in 1 .. k + 1, NEW j \in 1 .. k + 1,
                            kept[m + 1][i] = kept[m + 1][j]
                     PROVE  i = j
          BY <3>2
        <4>1. \A h \in 1 .. k : kept[m + 1][h] # x
          <5> SUFFICES ASSUME NEW h \in 1 .. k, kept[m][h] = x PROVE FALSE
            BY <3>2
          <5>1. PICK e \in 1 .. m : kept[m][h] = sequence[e]
            BY <2>1, <3>2
          <5>2. e \in DOMAIN sequence /\ m + 1 \in DOMAIN sequence /\ e # m + 1
            BY <1>1, <2>1
          <5>3. QED
            BY <5>1, <5>2 DEF x
        <4>2. i \in 1 .. k /\ j \in 1 .. k => kept[m][i] = kept[m][j]
          BY <3>2
        <4>3. QED
          BY <2>1, <3>2, <3>4, <4>1, <4>2
      <3>8. QED
        BY <3>2, <3>5, <3>6, <3>7
    <2>5. QED
      BY <2>3, <2>4
  <1> HIDE DEF T
  <1>5. T \in SUBSET Nat
    BY DEF T
  <1>6. T = Nat
    BY <1>3, <1>4, <1>5, SetInduction
  <1> HIDE DEF Typed, Sorted, All, Unlike
  <1>7. n \in T /\ n <= Len(sequence)
    BY <1>1, <1>6
  <1>8. Typed(n) /\ Sorted(n) /\ All(n) /\ Unlike(n)
    BY <1>7 DEF T
  <1>9. QED
    BY <1>8 DEF kept, Typed, Sorted, All, Unlike

\* The rows that make a hook, and a load that has put hooks into the cache.
HookRows == {x \in H!Instance : x.conf.kind # "bad"}

InLoop(c) == at[c] = "fill" /\ upTo[c] > 0

\* No edit is on its way to the invalidation, and none has been overtaken.
Steady == ~suspect /\ \A e \in Editor : at[e] # "clear"

\* One load is in its loop at most.  What a load has, unless an edit overtook
\* it, is what the rows are, and what it has put into the cache is that far
\* what they make.
Loading ==
    /\ tainted \subseteq {c \in Chat : at[c] = "fill"}
    /\ \A c, d \in Chat : InLoop(c) /\ InLoop(d) => c = d
    /\ \A c \in Chat \ tainted : at[c] = "fill" => loaded[c] = H!ActiveRows
    /\ Steady =>
         /\ \A c \in Chat \ tainted : InLoop(c) =>
              instances \in {H!Kept(H!ActiveRows, HookRows)[upTo[c]], H!Usable(H!ActiveRows)}
         /\ (\A c \in Chat \ tainted : ~InLoop(c)) =>
              instances \in {<<>>, H!Usable(H!ActiveRows)}

\* No rule without a fault stands against the arguments as they are.
Allowed(confs, n, data) ==
    \A i \in 1 .. n : confs[i].conf.kind = "rule" /\ ~confs[i].conf.faulty
                        => ~H!Denied(confs[i].conf, data)

\* A call has come so far through its hooks, and each has let it pass.
Calling(c) ==
    /\ at[c] \in {"idle", "query", "call"} => upTo[c] = 0
    /\ at[c] \in {"fill", "pre"} => upTo[c] <= Len(loaded[c])
    /\ ran[c] = None \/ at[c] = "done"
    /\ at[c] = "pre" /\ ~H!Modified(c) =>
         args[c] = given[c] /\ Allowed(loaded[c], upTo[c], given[c])
    /\ ran[c] # None /\ ~H!Modified(c) => Allowed(loaded[c], Len(loaded[c]), ran[c])

Editing(e) ==
    at[e] = "save" => wanted[e] \in [name : H!HookName, row : H!HookRow, new : BOOLEAN]

HookInv ==
    /\ H!TypeOK /\ Loading
    /\ \A c \in Chat : Calling(c)
    /\ \A e \in Editor : Editing(e)

LEMMA UsableIs ==
    ASSUME NEW hooks \in Seq(H!Instance)
    PROVE  /\ H!Usable(hooks) = H!Kept(hooks, HookRows)[Len(hooks)]
           /\ H!Usable(hooks) \in Seq(H!Instance)
  <1>1. H!Usable(hooks) = H!Kept(hooks, HookRows)[Len(hooks)]
    BY DEF H!Usable, H!Only, HookRows
  <1>2. Len(hooks) \in 0 .. Len(hooks)
    OBVIOUS
  <1>3. QED
    BY <1>1, <1>2, KeptFacts

\* hook_config.py:50-53: the names of a tenant are unique.
LEMMA RowsAre ==
    ASSUME H!TypeOK
    PROVE  /\ H!ActiveRows \in Seq(H!Instance)
           /\ \A i, j \in DOMAIN H!ActiveRows :
                H!ActiveRows[i].name = H!ActiveRows[j].name => i = j
  <1> DEFINE on == {h \in H!HookName : hookRows[h] # None /\ hookRows[h].active}
             active == H!Only(Hook, on)
  <1>1. H!ActiveRows = [i \in DOMAIN active |->
                          [name |-> active[i], conf |-> hookRows[active[i]].conf]]
    BY DEF H!ActiveRows
  <1>2. /\ active \in Seq(H!HookName)
        /\ \A i \in DOMAIN active : active[i] \in on
        /\ \A i, j \in DOMAIN active : active[i] = active[j] => i = j
    <2>1. /\ Hook \in Seq(H!HookName) /\ Len(Hook) \in 0 .. Len(Hook)
          /\ \A i, j \in DOMAIN Hook : Hook[i] = Hook[j] => i = j
      BY ConfigAssumption
    <2> HIDE DEF on
    <2>2. QED
      BY <2>1, KeptFacts DEF H!Only
  <1> HIDE DEF active
  <1>3. \A i \in DOMAIN active : active[i] \in H!HookName /\ hookRows[active[i]].conf \in HookConf
    BY <1>2 DEF H!TypeOK, H!HookRow
  <1>4. \A i \in DOMAIN active :
          H!ActiveRows[i] \in H!Instance /\ H!ActiveRows[i].name = active[i]
    BY <1>1, <1>3 DEF H!Instance
  <1>5. DOMAIN H!ActiveRows = DOMAIN active /\ DOMAIN active = 1 .. Len(active)
        /\ Len(active) \in Nat
    BY <1>1, <1>2
  <1>6. H!ActiveRows \in Seq(H!Instance)
    <2>1. H!ActiveRows \in [1 .. Len(active) -> H!Instance]
      BY <1>1, <1>4, <1>5
    <2>2. QED
      BY <1>5, <2>1
  <1>7. QED
    BY <1>2, <1>4, <1>5, <1>6

LEMMA PutIs ==
    ASSUME NEW dict \in Seq(H!Instance), NEW x \in H!Instance
    PROVE  H!Put(dict, x) \in Seq(H!Instance)
  <1>1. CASE \E i \in DOMAIN dict : dict[i].name = x.name
    <2>1. H!Put(dict, x) = [i \in DOMAIN dict |-> IF dict[i].name = x.name THEN x ELSE dict[i]]
      BY <1>1 DEF H!Put
    <2>2. Len(dict) \in Nat /\ DOMAIN dict = 1 .. Len(dict)
      OBVIOUS
    <2>3. H!Put(dict, x) \in [1 .. Len(dict) -> H!Instance]
      BY <2>1, <2>2
    <2>4. QED
      BY <2>2, <2>3
  <1>2. CASE ~\E i \in DOMAIN dict : dict[i].name = x.name
    BY <1>2 DEF H!Put
  <1>3. QED
    BY <1>1, <1>2

\* registry.py:64-76: the next row of a load comes behind what it has put into
\* the cache, and takes its own place where all are there already.
LEMMA PutKept ==
    ASSUME H!TypeOK, NEW n \in Nat, n + 1 \in DOMAIN H!ActiveRows,
           H!ActiveRows[n + 1] \in HookRows
    PROVE  /\ H!Put(H!Kept(H!ActiveRows, HookRows)[n], H!ActiveRows[n + 1])
                = H!Kept(H!ActiveRows, HookRows)[n + 1]
           /\ H!Put(H!Usable(H!ActiveRows), H!ActiveRows[n + 1]) = H!Usable(H!ActiveRows)
  <1>1. PICK listed \in Seq(H!Instance) :
          /\ listed = H!ActiveRows /\ Len(listed) \in Nat /\ DOMAIN listed = 1 .. Len(listed)
          /\ \A i, j \in DOMAIN listed : listed[i].name = listed[j].name => i = j
    BY RowsAre
  <1> DEFINE kept == H!Kept(listed, HookRows)
             x == listed[n + 1]
  <1>2. /\ n \in 0 .. Len(listed) /\ n + 1 \in 1 .. Len(listed) /\ x \in HookRows
        /\ Len(listed) \in 0 .. Len(listed) /\ (n + 1) - 1 = n
    BY <1>1
  <1>3. kept[n + 1] = Append(kept[n], x)
    <2>1. \A i \in 1 .. Len(listed) :
            kept[i] = IF listed[i] \in HookRows THEN Append(kept[i - 1], listed[i])
                      ELSE kept[i - 1]
      BY <1>1, KeptIs
    <2> HIDE DEF kept
    <2>2. QED
      BY <1>2, <2>1
  <1>4. /\ kept[n] \in Seq(H!Instance)
        /\ \A j \in DOMAIN kept[n] : \E i \in 1 .. n : kept[n][j] = listed[i]
    BY <1>2, KeptFacts
  <1>5. /\ kept[Len(listed)] \in Seq(H!Instance)
        /\ \A j \in DOMAIN kept[Len(listed)] :
             \E i \in 1 .. Len(listed) : kept[Len(listed)][j] = listed[i]
        /\ \A i \in 1 .. Len(listed) : listed[i] \in HookRows =>
             \E j \in DOMAIN kept[Len(listed)] : kept[Len(listed)][j] = listed[i]
    BY SMTT(20), <1>2, KeptFacts
  <1>6. H!Usable(listed) = kept[Len(listed)]
    BY <1>1, UsableIs
  <1> HIDE DEF kept
  <1>7. \A j \in DOMAIN kept[n] : kept[n][j].name # x.name
    <2> SUFFICES ASSUME NEW j \in DOMAIN kept[n] PROVE kept[n][j].name # x.name
      OBVIOUS
    <2>1. PICK i \in 1 .. n : kept[n][j] = listed[i]
      BY <1>4
    <2>2. listed[i].name # listed[n + 1].name
      BY <1>1, <1>2
    <2>3. QED
      BY <2>1, <2>2
  <1>8. H!Put(kept[n], x) = kept[n + 1]
    BY <1>3, <1>7 DEF H!Put
  <1> DEFINE all == kept[Len(listed)]
  <1>9. /\ \E j \in DOMAIN all : all[j].name = x.name
        /\ \A j \in DOMAIN all : all[j].name = x.name => all[j] = x
    <2>1. \E j \in DOMAIN all : all[j] = x
      BY <1>2, <1>5
    <2>2. ASSUME NEW j \in DOMAIN all, all[j].name = x.name PROVE all[j] = x
      <3>1. PICK i \in 1 .. Len(listed) : all[j] = listed[i]
        BY <1>5
      <3>2. QED
        BY <1>1, <1>2, <2>2, <3>1
    <2>3. QED
      BY <2>1, <2>2
  <1>10. all \in Seq(H!Instance)
    BY <1>5
  <1> HIDE DEF all, x
  <1>11. H!Put(all, x) = all
    <2>1. H!Put(all, x) = [j \in DOMAIN all |-> all[j]]
      BY <1>9 DEF H!Put
    <2>2. all = [j \in DOMAIN all |-> all[j]]
      BY <1>10
    <2>3. QED
      BY <2>1, <2>2
  <1>12. QED
    BY <1>1, <1>6, <1>8, <1>11 DEF all, x, kept

LEMMA HookTypeStep ==
    ASSUME H!TypeOK, \A e \in Editor : Editing(e), H!Next
    PROVE  H!TypeOK'
  <1>1. /\ hookRows \in [H!HookName -> H!HookRow \cup {None}]
        /\ instances \in Seq(H!Instance)
        /\ at \in [Chat \cup Editor ->
             {"idle", "query", "fill", "call", "pre", "read", "save", "clear", "done"}]
        /\ loaded \in [Chat -> Seq(H!Instance)] /\ upTo \in [Chat -> Nat]
        /\ args \in [Chat -> Arguments \cup {None}] /\ ran \in [Chat -> Arguments \cup {None}]
        /\ given \in [Chat -> Arguments \cup {None}]
        /\ wanted \in [Editor -> [name : H!HookName, row : H!HookRow, new : BOOLEAN] \cup {None}]
        /\ tainted \subseteq Chat /\ suspect \in BOOLEAN
    BY DEF H!TypeOK
  <1>2. ASSUME NEW c \in Chat, H!LookUp(c) PROVE H!TypeOK'
    BY <1>1, <1>2 DEF H!LookUp, H!Go, H!TypeOK
  <1>3. ASSUME NEW c \in Chat, H!QueryRows(c) PROVE H!TypeOK'
    <2>1. H!ActiveRows \in Seq(H!Instance)
      BY RowsAre
    <2>2. QED
      BY <1>1, <1>3, <2>1 DEF H!QueryRows, H!Go, H!TypeOK
  <1>4. ASSUME NEW c \in Chat, H!FillOne(c) PROVE H!TypeOK'
    <2>1. loaded[c][upTo[c] + 1] \in H!Instance
      BY <1>1, <1>4 DEF H!FillOne
    <2>2. instances' \in Seq(H!Instance)
      BY <1>1, <1>4, <2>1, PutIs DEF H!FillOne
    <2>3. suspect' \in BOOLEAN
      BY <1>1, <1>4, Zenon DEF H!FillOne
    <2>4. QED
      BY <1>1, <1>4, <2>2, <2>3 DEF H!FillOne, H!TypeOK
  <1>5. ASSUME NEW c \in Chat, H!Filled(c) PROVE H!TypeOK'
    <2>1. H!Usable(loaded[c]) \in Seq(H!Instance)
      BY <1>1, UsableIs
    <2>2. QED
      BY <1>1, <1>5, <2>1 DEF H!Filled, H!Go, H!TypeOK
  <1>6. ASSUME NEW c \in Chat, H!CallTool(c) PROVE H!TypeOK'
    BY <1>1, <1>6 DEF H!CallTool, H!Go, H!TypeOK
  <1>7. ASSUME NEW c \in Chat, H!HookDenies(c) PROVE H!TypeOK'
    BY <1>1, <1>7 DEF H!HookDenies, H!Leave, H!Go, H!TypeOK
  <1>8. ASSUME NEW c \in Chat, H!HookAllows(c) PROVE H!TypeOK'
    <2>1. H!Asked(c) \in HookConf
      <3>1. loaded[c][upTo[c] + 1] \in H!Instance
        BY <1>1, <1>8 DEF H!HookAllows, H!HookDue
      <3>2. QED
        BY <3>1 DEF H!Asked, H!Instance
    <2>2. H!Asked(c).kind = "rewrite" => H!Asked(c).to \in Arguments
      BY <2>1, ConfigAssumption
    <2>3. QED
      BY <1>1, <1>8, <2>2 DEF H!HookAllows, H!TypeOK
  <1>9. ASSUME NEW c \in Chat, H!HookRaises(c) \/ H!RunTool(c) PROVE H!TypeOK'
    <2>1. CASE H!HookRaises(c)
      BY <1>1, <2>1 DEF H!HookRaises, H!HookDue, H!TypeOK
    <2>2. CASE H!RunTool(c)
      BY <1>1, <2>2 DEF H!RunTool, H!Leave, H!Go, H!TypeOK
    <2>3. QED
      BY <1>9, <2>1, <2>2
  <1>10. ASSUME NEW e \in Editor, H!EditRow(e) PROVE H!TypeOK'
    <2>1. PICK i \in DOMAIN Hook, new \in H!HookRow :
            wanted' = [wanted EXCEPT ![e] = [name |-> Hook[i], row |-> new,
                                            new |-> hookRows[Hook[i]] = None]]
      BY <1>10 DEF H!EditRow
    <2>2. Hook[i] \in H!HookName /\ (hookRows[Hook[i]] = None) \in BOOLEAN
      BY DEF H!HookName
    <2>3. [name |-> Hook[i], row |-> new, new |-> hookRows[Hook[i]] = None]
            \in [name : H!HookName, row : H!HookRow, new : BOOLEAN]
      BY <2>2
    <2>4. QED
      BY <1>1, <1>10, <2>1, <2>3 DEF H!EditRow, H!Go, H!TypeOK
  <1>11. ASSUME NEW e \in Editor, H!SaveRow(e) PROVE H!TypeOK'
    <2>1. wanted[e].name \in H!HookName /\ wanted[e].row \in H!HookRow
      BY <1>11 DEF H!SaveRow, Editing
    <2>2. QED
      BY <1>1, <1>11, <2>1 DEF H!SaveRow, H!Go, H!HaveRows, H!TypeOK
  <1>12. ASSUME NEW e \in Editor, H!Invalidate(e) PROVE H!TypeOK'
    <2>1. suspect' \in BOOLEAN /\ instances' \in Seq(H!Instance)
      <3>1. instances' = <<>>
        BY <1>12 DEF H!Invalidate
      <3>2. suspect' \in BOOLEAN
        BY <1>12, Zenon DEF H!Invalidate
      <3>3. QED
        BY <3>1, <3>2
    <2>2. at' = [at EXCEPT ![e] = "done"] /\ tainted' \subseteq Chat
      BY <1>1, <1>12 DEF H!Invalidate, H!Go, H!HaveRows
    <2>3. QED
      BY <1>1, <1>12, <2>1, <2>2 DEF H!Invalidate, H!TypeOK
  <1>13. CASE H!Restart
    <2>1. suspect' \in BOOLEAN /\ instances' \in Seq(H!Instance) /\ tainted' \subseteq Chat
      <3>1. instances' = <<>> /\ tainted' = {}
        BY <1>13 DEF H!Restart
      <3>2. suspect' \in BOOLEAN
        BY <1>13, Zenon DEF H!Restart
      <3>3. QED
        BY <3>1, <3>2
    <2>2. at' \in [Chat \cup Editor ->
             {"idle", "query", "fill", "call", "pre", "read", "save", "clear", "done"}]
      BY <1>13 DEF H!Restart
    <2>3. /\ loaded' \in [Chat -> Seq(H!Instance)] /\ upTo' \in [Chat -> Nat]
          /\ args' \in [Chat -> Arguments \cup {None}] /\ given' \in [Chat -> Arguments \cup {None}]
          /\ wanted' \in [Editor -> [name : H!HookName, row : H!HookRow, new : BOOLEAN] \cup {None}]
      BY <1>1, <1>13 DEF H!Restart
    <2>4. QED
      BY <1>1, <1>13, <2>1, <2>2, <2>3 DEF H!Restart, H!TypeOK
  <1>14. QED
    BY <1>2, <1>3, <1>4, <1>5, <1>6, <1>7, <1>8, <1>9, <1>10, <1>11, <1>12, <1>13 DEF H!Next

LEMMA EditingStep ==
    ASSUME H!TypeOK, \A e \in Editor : Editing(e), H!Next
    PROVE  \A e \in Editor : Editing(e)'
  <1>1. /\ at \in [Chat \cup Editor ->
             {"idle", "query", "fill", "call", "pre", "read", "save", "clear", "done"}]
        /\ wanted \in [Editor -> [name : H!HookName, row : H!HookRow, new : BOOLEAN] \cup {None}]
        /\ Chat \cap Editor = {}
    BY ConfigAssumption DEF H!TypeOK
  <1>2. ASSUME NEW e \in Editor, H!EditRow(e) PROVE \A d \in Editor : Editing(d)'
    <2>1. PICK i \in DOMAIN Hook, new \in H!HookRow :
            wanted' = [wanted EXCEPT ![e] = [name |-> Hook[i], row |-> new,
                                            new |-> hookRows[Hook[i]] = None]]
      BY <1>2 DEF H!EditRow
    <2>2. Hook[i] \in H!HookName /\ (hookRows[Hook[i]] = None) \in BOOLEAN
      BY DEF H!HookName
    <2>3. [name |-> Hook[i], row |-> new, new |-> hookRows[Hook[i]] = None]
            \in [name : H!HookName, row : H!HookRow, new : BOOLEAN]
      BY <2>2
    <2>4. QED
      BY <1>1, <1>2, <2>1, <2>3 DEF H!EditRow, H!Go, Editing
  <1>3. UNCHANGED wanted /\ (\A e \in Editor : at'[e] = "save" => at[e] = "save")
          => \A e \in Editor : Editing(e)'
    BY DEF Editing
  <1>4. ASSUME NEW c \in Chat,
               \/ H!LookUp(c) \/ H!QueryRows(c) \/ H!FillOne(c) \/ H!Filled(c)
               \/ H!CallTool(c) \/ H!HookDenies(c) \/ H!HookAllows(c) \/ H!HookRaises(c)
               \/ H!RunTool(c)
        PROVE  UNCHANGED wanted /\ \A e \in Editor : at'[e] = at[e]
    BY <1>1, <1>4 DEF H!LookUp, H!QueryRows, H!FillOne, H!Filled, H!CallTool, H!HookDenies,
         H!HookAllows, H!HookRaises, H!RunTool, H!Leave, H!Go
  <1>5. ASSUME NEW e \in Editor, H!SaveRow(e) \/ H!Invalidate(e)
        PROVE  \A d \in Editor : Editing(d)'
    <2>1. at'[e] # "save" /\ \A d \in Editor \ {e} : at'[d] = at[d] /\ wanted'[d] = wanted[d]
      BY <1>1, <1>5 DEF H!SaveRow, H!Invalidate, H!Go
    <2>2. QED
      BY <2>1 DEF Editing
  <1>6. CASE H!Restart
    BY <1>1, <1>6 DEF H!Restart, Editing
  <1>7. QED
    BY <1>2, <1>3, <1>4, <1>5, <1>6 DEF H!Next

\* Only its own steps and a restart change what a call has come to.
LEMMA CallingSame ==
    ASSUME NEW c \in Chat, Calling(c),
           at'[c] = at[c] \/ (at'[c] = "done" /\ at[c] # "idle"),
           upTo'[c] = upTo[c], loaded'[c] = loaded[c],
           ran'[c] = ran[c], args'[c] = args[c], given'[c] = given[c]
    PROVE  Calling(c)'
  BY DEF Calling, H!Modified, Allowed

LEMMA CallingStep ==
    ASSUME H!TypeOK, \A c \in Chat : Calling(c), H!Next
    PROVE  \A c \in Chat : Calling(c)'
  <1>1. /\ at \in [Chat \cup Editor ->
             {"idle", "query", "fill", "call", "pre", "read", "save", "clear", "done"}]
        /\ loaded \in [Chat -> Seq(H!Instance)] /\ upTo \in [Chat -> Nat]
        /\ args \in [Chat -> Arguments \cup {None}] /\ ran \in [Chat -> Arguments \cup {None}]
        /\ given \in [Chat -> Arguments \cup {None}]
        /\ Chat \cap Editor = {}
    BY ConfigAssumption DEF H!TypeOK
  <1>2. ASSUME NEW c \in Chat,
               \/ H!LookUp(c) \/ H!QueryRows(c) \/ H!FillOne(c) \/ H!Filled(c)
               \/ H!CallTool(c) \/ H!HookDenies(c) \/ H!HookAllows(c) \/ H!HookRaises(c)
               \/ H!RunTool(c),
               Calling(c)'
        PROVE  \A d \in Chat : Calling(d)'
    <2>1. \A d \in Chat \ {c} :
            /\ at'[d] = at[d] /\ upTo'[d] = upTo[d] /\ loaded'[d] = loaded[d]
            /\ ran'[d] = ran[d] /\ args'[d] = args[d] /\ given'[d] = given[d]
      BY <1>1, <1>2 DEF H!LookUp, H!QueryRows, H!FillOne, H!Filled, H!CallTool, H!HookDenies,
           H!HookAllows, H!HookRaises, H!RunTool, H!Leave, H!Go
    <2>2. QED
      BY <1>2, <2>1, CallingSame
  <1>3. ASSUME NEW c \in Chat, H!LookUp(c) PROVE Calling(c)'
    BY <1>1, <1>3 DEF H!LookUp, H!Go, Calling
  <1>4. ASSUME NEW c \in Chat, H!QueryRows(c) PROVE Calling(c)'
    <2>1. Len(H!ActiveRows) \in Nat
      BY RowsAre
    <2>2. QED
      BY <1>1, <1>4, <2>1 DEF H!QueryRows, H!Go, Calling
  <1>5. ASSUME NEW c \in Chat, H!FillOne(c) PROVE Calling(c)'
    BY <1>1, <1>5 DEF H!FillOne, H!Go, Calling
  <1>6. ASSUME NEW c \in Chat, H!Filled(c) PROVE Calling(c)'
    BY <1>1, <1>6 DEF H!Filled, H!Go, Calling
  <1>7. ASSUME NEW c \in Chat, H!CallTool(c) PROVE Calling(c)'
    <2>1. /\ at[c] = "call" /\ at'[c] = "pre" /\ upTo' = upTo /\ ran' = ran /\ loaded' = loaded
          /\ args'[c] = given'[c]
      BY <1>1, <1>7 DEF H!CallTool, H!Go
    <2>2. upTo[c] = 0 /\ ran[c] = None /\ Len(loaded[c]) \in Nat
      BY <1>1, <2>1 DEF Calling
    <2>3. QED
      BY <1>1, <2>1, <2>2 DEF Calling, Allowed
  <1>8. ASSUME NEW c \in Chat, H!HookDenies(c) PROVE Calling(c)'
    <2>1. /\ at[c] = "pre" /\ at'[c] = "done" /\ ran' = ran
      BY <1>1, <1>8 DEF H!HookDenies, H!HookDue, H!Leave, H!Go
    <2>2. QED
      BY <2>1 DEF Calling
  <1>9. ASSUME NEW c \in Chat, H!HookAllows(c) \/ H!HookRaises(c) PROVE Calling(c)'
    <2>1. /\ at[c] = "pre" /\ at'[c] = "pre" /\ upTo[c] < Len(loaded[c])
          /\ upTo'[c] = upTo[c] + 1 /\ ran' = ran /\ loaded' = loaded /\ given' = given
          /\ H!Asked(c).kind = "rule" /\ ~H!Asked(c).faulty
               => ~H!Denied(H!Asked(c), args[c])
          /\ H!Asked(c).kind # "rewrite" => args'[c] = args[c]
      BY <1>1, <1>9 DEF H!HookAllows, H!HookRaises, H!HookDue, H!MayRaise
    <2>2. /\ Len(loaded[c]) \in Nat /\ DOMAIN loaded[c] = 1 .. Len(loaded[c])
          /\ upTo[c] \in Nat /\ ran[c] = None
      BY <1>1, <2>1 DEF Calling
    <2>3. ASSUME ~H!Modified(c)'
          PROVE  args'[c] = given'[c] /\ Allowed(loaded'[c], upTo'[c], given'[c])
      <3>1. ~H!Modified(c) /\ upTo[c] + 1 \in DOMAIN loaded[c]
        BY <2>1, <2>2, <2>3 DEF H!Modified
      <3>2. H!Asked(c).kind # "rewrite"
        BY <3>1 DEF H!Modified, H!Asked
      <3>3. args'[c] = args[c] /\ args[c] = given[c] /\ Allowed(loaded[c], upTo[c], given[c])
        BY <2>1, <3>1, <3>2 DEF Calling
      <3>4. Allowed(loaded[c], upTo[c] + 1, given[c])
        BY <2>1, <2>2, <3>3 DEF Allowed, H!Asked
      <3>5. QED
        BY <2>1, <3>3, <3>4
    <2>4. QED
      BY <1>1, <2>1, <2>2, <2>3 DEF Calling
  <1>10. ASSUME NEW c \in Chat, H!RunTool(c) PROVE Calling(c)'
    <2>1. /\ at[c] = "pre" /\ at'[c] = "done" /\ upTo[c] = Len(loaded[c])
          /\ ran'[c] = given[c] /\ loaded'[c] = loaded[c]
      BY <1>1, <1>10 DEF H!RunTool, H!Leave, H!Go
    <2>2. ~H!Modified(c) => Allowed(loaded[c], Len(loaded[c]), given[c])
      BY <2>1 DEF Calling
    <2>3. H!Modified(c)' <=> H!Modified(c)
      BY <2>1 DEF H!Modified
    <2>4. QED
      BY <1>1, <2>1, <2>2, <2>3 DEF Calling
  <1>11. ASSUME NEW e \in Editor, H!EditRow(e) \/ H!SaveRow(e) \/ H!Invalidate(e)
         PROVE  \A c \in Chat : Calling(c)'
    <2>1. \A c \in Chat :
            /\ at'[c] = at[c] /\ upTo'[c] = upTo[c] /\ loaded'[c] = loaded[c]
            /\ ran'[c] = ran[c] /\ args'[c] = args[c] /\ given'[c] = given[c]
      BY <1>1, <1>11 DEF H!EditRow, H!SaveRow, H!Invalidate, H!Go
    <2>2. QED
      BY <2>1, CallingSame
  <1>12. CASE H!Restart
    <2>1. \A c \in Chat :
            /\ at'[c] = "done" \/ (at'[c] = "idle" /\ at[c] = "idle")
            /\ upTo'[c] = 0 /\ ran'[c] = ran[c]
            /\ ran[c] # None => loaded'[c] = loaded[c]
      BY <1>1, <1>12 DEF H!Restart
    <2>2. ASSUME NEW c \in Chat PROVE Calling(c)'
      <3>1. CASE ran[c] = None
        BY <2>1, <3>1 DEF Calling
      <3>2. CASE ran[c] # None
        <4>1. /\ at'[c] = "done" /\ ran'[c] = ran[c] /\ loaded'[c] = loaded[c]
              /\ ~H!Modified(c) => Allowed(loaded[c], Len(loaded[c]), ran[c])
          BY <2>1, <3>2 DEF Calling
        <4>2. H!Modified(c)' <=> H!Modified(c)
          BY <4>1 DEF H!Modified
        <4>3. QED
          BY <4>1, <4>2 DEF Calling
      <3>3. QED
        BY <3>1, <3>2
    <2>3. QED
      BY <2>2
  <1>13. QED
    BY <1>2, <1>3, <1>4, <1>5, <1>6, <1>7, <1>8, <1>9, <1>10, <1>11, <1>12 DEF H!Next

\* What the rows are, and what they make, changes with the rows only.
LEMMA SameRows ==
    ASSUME UNCHANGED hookRows
    PROVE  H!ActiveRows' = H!ActiveRows
  BY DEF H!ActiveRows

\* A step that leaves the rows, the cache and the loads in their loops alone.
LEMMA LoadingSame ==
    ASSUME Loading, UNCHANGED <<hookRows, instances, tainted>>, suspect' = suspect,
           \A c \in Chat : \/ at'[c] = at[c] /\ upTo'[c] = upTo[c] /\ loaded'[c] = loaded[c]
                           \/ at[c] # "fill" /\ at'[c] # "fill"
                           \/ at[c] # "fill" /\ at'[c] = "fill" /\ upTo'[c] = 0
                              /\ loaded'[c] = H!ActiveRows,
           \A e \in Editor : at'[e] # "clear" => at[e] # "clear"
    PROVE  Loading'
  <1>1. H!ActiveRows' = H!ActiveRows
    BY SameRows
  <1>2. H!Usable(H!ActiveRows)' = H!Usable(H!ActiveRows)
    BY <1>1
  <1>3. \A c \in Chat : InLoop(c)' <=> InLoop(c)
    BY DEF InLoop
  <1>4. \A c \in Chat : InLoop(c) => upTo'[c] = upTo[c]
    BY DEF InLoop
  <1>5. Steady' => Steady
    BY DEF Steady
  <1>6. \A c \in Chat : InLoop(c) =>
          H!Kept(H!ActiveRows, HookRows)[upTo[c]]' = H!Kept(H!ActiveRows, HookRows)[upTo[c]]
    BY <1>1, <1>4 DEF HookRows
  <1>7. /\ tainted' \subseteq {c \in Chat : at'[c] = "fill"}
        /\ \A c, d \in Chat : InLoop(c)' /\ InLoop(d)' => c = d
        /\ \A c \in Chat \ tainted' : at'[c] = "fill" => loaded'[c] = H!ActiveRows'
    BY <1>1, <1>3 DEF Loading
  <1>8. Steady' =>
          /\ \A c \in Chat \ tainted' : InLoop(c)' =>
               instances' \in {H!Kept(H!ActiveRows, HookRows)[upTo[c]], H!Usable(H!ActiveRows)}'
          /\ (\A c \in Chat \ tainted' : ~InLoop(c)') =>
               instances' \in {<<>>, H!Usable(H!ActiveRows)}'
    BY <1>2, <1>3, <1>5, <1>6 DEF Loading
  <1>9. QED
    BY <1>7, <1>8 DEF Loading

LEMMA LoadingStep ==
    ASSUME H!TypeOK, Loading, \A c \in Chat : Calling(c), H!Next
    PROVE  Loading'
  <1>1. /\ at \in [Chat \cup Editor ->
             {"idle", "query", "fill", "call", "pre", "read", "save", "clear", "done"}]
        /\ loaded \in [Chat -> Seq(H!Instance)] /\ upTo \in [Chat -> Nat]
        /\ tainted \subseteq Chat /\ Chat \cap Editor = {}
    BY ConfigAssumption DEF H!TypeOK
  <1>2. ASSUME NEW c \in Chat,
               \/ H!LookUp(c) \/ H!QueryRows(c) \/ H!CallTool(c) \/ H!HookDenies(c)
               \/ H!HookAllows(c) \/ H!HookRaises(c) \/ H!RunTool(c)
        PROVE  Loading'
    <2>1. /\ UNCHANGED <<hookRows, instances, tainted>> /\ suspect' = suspect
          /\ \A d \in Chat \ {c} : at'[d] = at[d] /\ upTo'[d] = upTo[d] /\ loaded'[d] = loaded[d]
          /\ \A e \in Editor : at'[e] = at[e]
      BY <1>1, <1>2 DEF H!LookUp, H!QueryRows, H!CallTool, H!HookDenies, H!HookAllows,
           H!HookDue, H!HookRaises, H!RunTool, H!Leave, H!Go
    <2>2. \/ at[c] # "fill" /\ at'[c] # "fill"
          \/ at[c] # "fill" /\ at'[c] = "fill" /\ upTo'[c] = 0 /\ loaded'[c] = H!ActiveRows
      BY <1>1, <1>2 DEF H!LookUp, H!QueryRows, H!CallTool, H!HookDenies, H!HookAllows,
           H!HookDue, H!HookRaises, H!RunTool, H!Leave, H!Go, Calling
    <2>3. QED
      BY <2>1, <2>2, LoadingSame
  <1>3. ASSUME NEW c \in Chat, H!FillOne(c) PROVE Loading'
    <2> DEFINE n == upTo[c]
               x == loaded[c][n + 1]
    <2>1. /\ at[c] = "fill" /\ at' = at /\ loaded' = loaded /\ upTo'[c] = n + 1 /\ n \in Nat
          /\ n + 1 \in DOMAIN loaded[c] /\ UNCHANGED <<hookRows, tainted>>
          /\ \A d \in Chat \ {c} : upTo'[d] = upTo[d] /\ ~InLoop(d)
          /\ x \in H!Instance
      BY <1>1, <1>3 DEF H!FillOne, H!LoopIsFree, InLoop
    <2>2. /\ \A d \in Chat \ {c} : ~InLoop(d)'
          /\ InLoop(c)'
      BY <2>1 DEF InLoop
    <2>3. H!ActiveRows' = H!ActiveRows /\ H!Usable(H!ActiveRows)' = H!Usable(H!ActiveRows)
      <3>1. H!ActiveRows' = H!ActiveRows
        BY <2>1, SameRows
      <3>2. QED
        BY <3>1
    <2>4. /\ tainted' \subseteq {d \in Chat : at'[d] = "fill"}
          /\ \A d, e \in Chat : InLoop(d)' /\ InLoop(e)' => d = e
          /\ \A d \in Chat \ tainted' : at'[d] = "fill" => loaded'[d] = H!ActiveRows'
      BY <2>1, <2>2, <2>3 DEF Loading
    <2>5. Steady' => Steady /\ (c \in tainted => instances' = instances)
      BY <1>3, <2>1 DEF H!FillOne, Steady
    <2>6. ASSUME Steady', c \notin tainted
          PROVE  instances' \in {H!Kept(H!ActiveRows, HookRows)[n + 1], H!Usable(H!ActiveRows)}
      <3>1. loaded[c] = H!ActiveRows /\ n + 1 \in DOMAIN H!ActiveRows
        BY <2>1, <2>6 DEF Loading
      <3>2. /\ n + 1 \in 1 .. Len(H!ActiveRows) /\ (n + 1) - 1 = n
            /\ Len(H!ActiveRows) \in Nat
        BY <2>1, <3>1, RowsAre
      <3>3. instances \in {H!Kept(H!ActiveRows, HookRows)[n], H!Usable(H!ActiveRows)}
        <4>1. CASE n = 0
          <5>1. \A d \in Chat \ tainted : ~InLoop(d)
            BY <2>1, <4>1 DEF InLoop
          <5>2. H!Kept(H!ActiveRows, HookRows)[0] = <<>>
            BY <3>2, KeptIs
          <5>3. QED
            BY <2>5, <2>6, <4>1, <5>1, <5>2 DEF Loading
        <4>2. CASE n # 0
          BY <2>1, <2>5, <2>6, <4>2 DEF Loading, InLoop
        <4>3. QED
          BY <4>1, <4>2
      <3>4. CASE x.conf.kind = "bad"
        <4>1. instances' = instances
          BY <1>3, <3>4 DEF H!FillOne
        <4>2. H!ActiveRows[n + 1] \notin HookRows
          BY <3>1, <3>4 DEF HookRows
        <4>3. H!Kept(H!ActiveRows, HookRows)[n + 1] = H!Kept(H!ActiveRows, HookRows)[n]
          BY <3>2, <4>2, KeptIs
        <4>4. QED
          BY <3>3, <4>1, <4>3
      <3>5. CASE x.conf.kind # "bad"
        <4>1. instances' = H!Put(instances, H!ActiveRows[n + 1])
          BY <1>3, <3>1, <3>5 DEF H!FillOne
        <4>2. H!ActiveRows[n + 1] \in HookRows
          BY <2>1, <3>1, <3>5 DEF HookRows
        <4>3. /\ H!Put(H!Kept(H!ActiveRows, HookRows)[n], H!ActiveRows[n + 1])
                   = H!Kept(H!ActiveRows, HookRows)[n + 1]
              /\ H!Put(H!Usable(H!ActiveRows), H!ActiveRows[n + 1]) = H!Usable(H!ActiveRows)
          BY <2>1, <3>1, <4>2, PutKept
        <4>4. QED
          BY <3>3, <4>1, <4>3
      <3>6. QED
        BY <3>4, <3>5
    <2>7. ASSUME Steady', c \in tainted
          PROVE  instances' \in {<<>>, H!Usable(H!ActiveRows)}
      <3>1. \A d \in Chat \ tainted : ~InLoop(d)
        BY <2>1, <2>7
      <3>2. QED
        BY <2>5, <2>7, <3>1 DEF Loading
    <2>8. H!Kept(H!ActiveRows, HookRows)[upTo[c]]' = H!Kept(H!ActiveRows, HookRows)[n + 1]
      <3>1. HookRows' = HookRows
        BY DEF HookRows
      <3>2. QED
        BY <2>1, <2>3, <3>1
    <2>9. Steady' =>
            /\ \A d \in Chat \ tainted' : InLoop(d)' =>
                 instances' \in {H!Kept(H!ActiveRows, HookRows)[upTo[d]], H!Usable(H!ActiveRows)}'
            /\ (\A d \in Chat \ tainted' : ~InLoop(d)') =>
                 instances' \in {<<>>, H!Usable(H!ActiveRows)}'
      <3>1. \A d \in Chat : InLoop(d)' => d = c
        BY <2>2
      <3>2. tainted' = tainted
        BY <2>1
      <3>3. QED
        BY <2>2, <2>3, <2>6, <2>7, <2>8, <3>1, <3>2
    <2>10. QED
      BY <2>4, <2>9 DEF Loading
  <1>4. ASSUME NEW c \in Chat, H!Filled(c) PROVE Loading'
    <2>1. /\ at[c] = "fill" /\ at'[c] = "call" /\ upTo[c] = Len(loaded[c])
          /\ UNCHANGED <<hookRows, instances>> /\ suspect' = suspect
          /\ tainted' = tainted \ {c}
          /\ \A d \in Chat \ {c} : /\ at'[d] = at[d] /\ upTo'[d] = upTo[d]
                                   /\ loaded'[d] = loaded[d] /\ ~InLoop(d)
          /\ \A e \in Editor : at'[e] = at[e]
      BY <1>1, <1>4 DEF H!Filled, H!Go, H!LoopIsFree, InLoop
    <2>2. H!ActiveRows' = H!ActiveRows /\ H!Usable(H!ActiveRows)' = H!Usable(H!ActiveRows)
      <3>1. H!ActiveRows' = H!ActiveRows
        BY <2>1, SameRows
      <3>2. QED
        BY <3>1
    <2>3. \A d \in Chat : ~InLoop(d)'
      BY <2>1 DEF InLoop
    <2>4. /\ tainted' \subseteq {d \in Chat : at'[d] = "fill"}
          /\ \A d \in Chat \ tainted' : at'[d] = "fill" => loaded'[d] = H!ActiveRows'
      BY <2>1, <2>2 DEF Loading
    <2>5. Steady' => Steady
      BY <2>1 DEF Steady
    <2>6. ASSUME Steady PROVE instances \in {<<>>, H!Usable(H!ActiveRows)}
      <3>1. CASE c \notin tainted /\ InLoop(c)
        <4>1. loaded[c] = H!ActiveRows /\ H!ActiveRows \in Seq(H!Instance)
          BY <2>1, <3>1, RowsAre DEF Loading
        <4>2. H!Kept(H!ActiveRows, HookRows)[upTo[c]] = H!Usable(H!ActiveRows)
          BY <2>1, <4>1, UsableIs
        <4>3. QED
          BY <2>6, <3>1, <4>2 DEF Loading
      <3>2. CASE ~(c \notin tainted /\ InLoop(c))
        <4>1. \A d \in Chat \ tainted : ~InLoop(d)
          BY <2>1, <3>2
        <4>2. QED
          BY <2>6, <4>1 DEF Loading
      <3>3. QED
        BY <3>1, <3>2
    <2>7. QED
      BY <2>1, <2>2, <2>3, <2>4, <2>5, <2>6 DEF Loading
  <1>5. ASSUME NEW e \in Editor, H!EditRow(e) PROVE Loading'
    <2>1. /\ UNCHANGED <<hookRows, instances, tainted>> /\ suspect' = suspect
          /\ \A d \in Chat : at'[d] = at[d] /\ upTo'[d] = upTo[d] /\ loaded'[d] = loaded[d]
          /\ \A d \in Editor : at'[d] # "clear" => at[d] # "clear"
      BY <1>1, <1>5 DEF H!EditRow, H!Go
    <2>2. QED
      BY <2>1, LoadingSame
  <1>6. ASSUME NEW e \in Editor, H!SaveRow(e) PROVE Loading'
    <2>1. /\ UNCHANGED instances /\ suspect' = suspect
          /\ \A d \in Chat : at'[d] = at[d] /\ upTo'[d] = upTo[d] /\ loaded'[d] = loaded[d]
      BY <1>1, <1>6 DEF H!SaveRow, H!Go
    <2>2. CASE wanted[e].new /\ hookRows[wanted[e].name] # None
      <3>1. /\ UNCHANGED <<hookRows, tainted>>
            /\ \A d \in Editor : at'[d] # "clear" => at[d] # "clear"
        BY <1>1, <1>6, <2>2 DEF H!SaveRow, H!Go
      <3>2. QED
        BY <2>1, <3>1, LoadingSame
    <2>3. CASE ~(wanted[e].new /\ hookRows[wanted[e].name] # None)
      <3>1. tainted' = tainted \cup H!HaveRows /\ at'[e] = "clear"
        BY <1>1, <1>6, <2>3 DEF H!SaveRow, H!Go
      <3>2. ~Steady'
        BY <3>1 DEF Steady
      <3>3. /\ tainted' \subseteq {d \in Chat : at'[d] = "fill"}
            /\ \A d \in Chat \ tainted' : at'[d] # "fill"
        BY <2>1, <3>1 DEF Loading, H!HaveRows
      <3>4. \A d, f \in Chat : InLoop(d)' /\ InLoop(f)' => d = f
        BY <2>1 DEF Loading, InLoop
      <3>5. QED
        BY <3>2, <3>3, <3>4 DEF Loading
    <2>4. QED
      BY <2>2, <2>3
  <1>7. ASSUME NEW e \in Editor, H!Invalidate(e) PROVE Loading'
    <2>1. /\ instances' = <<>> /\ tainted' = tainted \cup {c \in H!HaveRows : upTo[c] > 0}
          /\ UNCHANGED hookRows
          /\ \A d \in Chat : at'[d] = at[d] /\ upTo'[d] = upTo[d] /\ loaded'[d] = loaded[d]
      BY <1>1, <1>7 DEF H!Invalidate, H!Go
    <2>2. H!ActiveRows' = H!ActiveRows
      BY <2>1, SameRows
    <2>3. \A d \in Chat : /\ InLoop(d)' <=> InLoop(d)
                          /\ InLoop(d) => d \in tainted'
      BY <2>1 DEF InLoop, H!HaveRows
    <2>4. /\ tainted' \subseteq {d \in Chat : at'[d] = "fill"}
          /\ \A d, f \in Chat : InLoop(d)' /\ InLoop(f)' => d = f
          /\ \A d \in Chat \ tainted' : at'[d] = "fill" => loaded'[d] = H!ActiveRows'
      BY <2>1, <2>2, <2>3 DEF Loading, H!HaveRows
    <2>5. QED
      BY <2>1, <2>3, <2>4 DEF Loading
  <1>8. CASE H!Restart
    <2>1. instances' = <<>> /\ tainted' = {} /\ \A d \in Chat : at'[d] # "fill"
      BY <1>1, <1>8 DEF H!Restart
    <2>2. \A d \in Chat : ~InLoop(d)'
      BY <2>1 DEF InLoop
    <2>3. QED
      BY <2>1, <2>2 DEF Loading
  <1>9. QED
    BY <1>2, <1>3, <1>4, <1>5, <1>6, <1>7, <1>8 DEF H!Next

LEMMA HookStep ==
    ASSUME HookInv, [H!Next]_(H!hookVars)
    PROVE  HookInv'
  <1>1. CASE H!Next
    BY <1>1, HookTypeStep, EditingStep, CallingStep, LoadingStep DEF HookInv
  <1>2. CASE UNCHANGED H!hookVars
    <2>1. /\ UNCHANGED <<hookRows, instances, at, loaded, upTo, args, ran, given, wanted, tainted>>
          /\ suspect' = suspect
      BY <1>2 DEF H!hookVars
    <2>2. H!TypeOK'
      BY <2>1 DEF HookInv, H!TypeOK
    <2>3. Loading'
      BY <2>1, LoadingSame DEF HookInv
    <2>4. \A c \in Chat : Calling(c)'
      BY <2>1, CallingSame DEF HookInv
    <2>5. \A e \in Editor : Editing(e)'
      BY <2>1 DEF HookInv, Editing
    <2>6. QED
      BY <2>2, <2>3, <2>4, <2>5 DEF HookInv
  <1>3. QED
    BY <1>1, <1>2

LEMMA HookInit == H!Init => HookInv
  <1> SUFFICES ASSUME H!Init PROVE HookInv
    OBVIOUS
  <1>1. /\ instances = <<>> /\ tainted = {}
        /\ \A a \in Chat \cup Editor : at[a] = "idle"
        /\ \A c \in Chat : upTo[c] = 0 /\ loaded[c] = <<>> /\ ran[c] = None
    BY DEF H!Init
  <1>2. H!TypeOK
    <2>1. suspect \in BOOLEAN
      BY Zenon DEF H!Init
    <2>2. hookRows \in [H!HookName -> H!HookRow \cup {None}]
      BY DEF H!Init, H!HookRow
    <2>3. QED
      BY <2>1, <2>2 DEF H!Init, H!TypeOK
  <1>3. Loading
    BY <1>1 DEF Loading, InLoop
  <1>4. (\A c \in Chat : Calling(c)) /\ \A e \in Editor : Editing(e)
    BY <1>1 DEF Calling, Editing
  <1>5. QED
    BY <1>2, <1>3, <1>4 DEF HookInv

LEMMA HooksHold == ConfigSpec => []HookInv
  <1>1. ConfigInit => HookInv
    BY HookInit DEF ConfigInit
  <1>2. [ConfigNext]_configVars => [H!Next]_(H!hookVars)
    BY DEF ConfigNext, configVars, hookVars, H!hookVars
  <1>3. HookInv /\ [ConfigNext]_configVars => HookInv'
    BY <1>2, HookStep
  <1>4. QED
    BY <1>1, <1>3, PTL DEF ConfigSpec

\* registry.py:47-98, hook_config.py:67-71: with no save on its way to the
\* invalidation and no load in its loop, the cache is empty or holds exactly
\* what the active rows make, unless a load that a save overtook has filled it.
THEOREM HookCacheIsFresh == ConfigSpec => []HookCacheFresh
  <1>1. HookInv => HookCacheFresh
    BY DEF HookCacheFresh, H!HookCacheFresh, H!Filling, HookInv, Loading, Steady, InLoop
  <1>2. QED
    BY <1>1, HooksHold, PTL

\* base.py:175-229, tool_rule_deny_hook.py:44-174: no tool runs with arguments
\* that a rule its request has loaded forbids, unless the rule has a fault and may
\* raise, or a hook rewrites them, whatever the other hooks raise.
THEOREM RulesAreKept == ConfigSpec => []RulesHold
  <1>1. HookInv => RulesHold
    <2> SUFFICES ASSUME HookInv, NEW c \in Chat, ran[c] # None, ~H!Modified(c),
                        NEW i \in DOMAIN loaded[c], loaded[c][i].conf.kind = "rule",
                        ~loaded[c][i].conf.faulty,
                        H!Forbidden(loaded[c][i].conf, ran[c])
                 PROVE  FALSE
      BY DEF RulesHold, H!RulesHold
    <2>1. loaded[c] \in Seq(H!Instance)
      BY DEF HookInv, H!TypeOK
    <2>2. /\ DOMAIN loaded[c] = 1 .. Len(loaded[c]) /\ loaded[c][i] \in H!Instance
      BY <2>1
    <2>3. Len(loaded[c][i].conf.path) \in Nat
      BY <2>2, ConfigAssumption DEF H!Instance
    <2>4. ~H!Denied(loaded[c][i].conf, ran[c])
      BY <2>2 DEF HookInv, Calling, Allowed
    <2>5. ran[c].kind # "unparsed"
      BY <2>4 DEF H!Denied
    <2>6. QED
      BY <2>3, <2>4, <2>5, RulesAreExact
  <1>2. QED
    BY <1>1, HooksHold, PTL

-----------------------------------------------------------------------------
(* All areas.                                                              *)

\* Every variable of every area keeps its type: what is read of a row, a cache
\* or a request is always something the code may find there.
THEOREM TypesHold == ConfigSpec => []ConfigTypes
  <1>1. HookInv /\ VersionInv /\ SnapshotInv /\ ModelInv /\ CatalogInv /\ SkillInv
          => ConfigTypes
    BY DEF HookInv, VersionInv, SnapshotInv, ModelInv, CatalogInv, SkillInv, ConfigTypes
  <1>2. QED
    BY <1>1, HooksHold, VersionsHold, SnapshotsHold, ModelsHold, CatalogHolds, SkillsHold, PTL
=============================================================================
