---------------------------- MODULE DayCacheProofs ----------------------------
(***************************************************************************)
(* Theorems about DayCache, for any number of processes, files, parts,     *)
(* endpoints and versions: a good copy is kept until the power fails, what *)
(* is printed is whole, and temporaries are owned.                         *)
(***************************************************************************)
EXTENDS DayCache, TLAPS

USE DEF vars, diskVars, transferVars

-----------------------------------------------------------------------------
(* The inductive invariant.                                                 *)

DayTypes ==
  /\ content \in [Files -> Seq(Versions)]
  /\ target \in Files \cup {NoFile} /\ temps \subseteq Files
  /\ pc \in [Runs -> Places]
  /\ file \in [Runs -> Files \cup {NoFile}]
  /\ payload \in [Runs -> Seq(Versions)]
  /\ offered \in Versions

\* The bytes written so far.
Begins(bytes, all) ==
  /\ Len(bytes) < Len(all)
  /\ \A i \in 1 .. Len(bytes) : bytes[i] = all[i]

Committed == {"creating", "writing", "replacing", "removing", "printing"}

RunInv(r) ==
  /\ pc[r] = "reading" => file[r] \in Files
  /\ HasTemporary(r) => file[r] \in temps
  /\ pc[r] \in Committed => Whole(payload[r])
  /\ pc[r] = "writing" => Begins(content[file[r]], payload[r])
  /\ pc[r] = "replacing" => content[file[r]] = payload[r]

NothingShared ==
  \A r, s \in Runs : HasTemporary(r) /\ HasTemporary(s) /\ file[r] = file[s] => r = s

DayInv ==
  /\ DayTypes
  /\ target \notin temps
  /\ \A r \in Runs : RunInv(r)
  /\ NothingShared

\* What the step of a run that goes on does: it keeps the good copy and leaves no
\* temporary behind.
StepKeeps == (Good => Good') /\ Orphans' \subseteq Orphans

\* The other runs stay where they are.
OthersStay(r) ==
  \A s \in Runs : s # r => pc'[s] = pc[s] /\ file'[s] = file[s] /\ payload'[s] = payload[s]

LEMMA DayInvInit == Init => DayInv
BY NoFileAssumption, EndpointsAssumption DEF Init, DayInv, DayTypes, RunInv, NothingShared, HasTemporary, Committed,
   Places, Versions

\* What is whole is a sequence of Parts versions.
LEMMA WholeIs ==
  ASSUME NEW bytes, Whole(bytes)
  PROVE  bytes \in Seq(Versions) /\ Len(bytes) = Parts
<1>1. PICK v \in Versions : bytes = [i \in 1 .. Parts |-> v]
  BY DEF Whole
<1>2. Parts \in Nat
  BY PartsAssumption
<1>3. bytes \in [1 .. Parts -> Versions]
  BY <1>1
<1> QED
  BY <1>2, <1>3

-----------------------------------------------------------------------------
(* Steps that leave the disk alone.                                         *)

LEMMA ElsewhereKeeps ==
  ASSUME DayInv, NEW r \in Runs, UNCHANGED diskVars, OthersStay(r),
         pc' \in [Runs -> Places], file' \in [Runs -> Files \cup {NoFile}], UNCHANGED offered,
         payload' \in [Runs -> Seq(Versions)],
         ~HasTemporary(r), ~HasTemporary(r)', pc'[r] = "reading" => file'[r] \in Files,
         pc'[r] \in Committed => Whole(payload'[r])
  PROVE  DayInv' /\ StepKeeps
<1>1. \A s \in Runs : s # r => (HasTemporary(s)' <=> HasTemporary(s))
  BY DEF HasTemporary, OthersStay
<1>2. DayTypes'
  BY DEF DayInv, DayTypes
<1>3. ASSUME NEW s \in Runs PROVE RunInv(s)'
  <2>1. CASE s = r
    BY <2>1 DEF RunInv, HasTemporary
  <2>2. CASE s # r
    <3>1. pc'[s] = pc[s] /\ file'[s] = file[s] /\ payload'[s] = payload[s] /\ RunInv(s)
      BY <2>2 DEF OthersStay, DayInv
    <3> QED
      BY <3>1 DEF RunInv, HasTemporary, Begins
  <2> QED
    BY <2>1, <2>2
<1>4. NothingShared'
  BY <1>1 DEF NothingShared, DayInv, OthersStay
<1>5. Good => Good'
  BY DEF Good
<1>6. Orphans' \subseteq Orphans
  BY <1>1 DEF Orphans, OthersStay
<1> QED
  BY <1>2, <1>3, <1>4, <1>5, <1>6 DEF DayInv, StepKeeps

\* The steps before anything is committed, and those that give up.
Elsewhere(r) ==
  \/ Start(r) \/ Open(r) \/ ReadSome(r) \/ ReadDone(r) \/ ReadFails(r) \/ Answer(r)
  \/ Connect(r) \/ NobodyHasIt(r) \/ Ask(r) \/ Request(r) \/ Chunk(r)
  \/ TransferFails(r) \/ DigestDiffers(r) \/ Loaded(r) \/ CreateFails(r)

LEMMA EndsTypes ==
  ASSUME DayTypes, NEW r \in Runs, Ends(r)
  PROVE  /\ pc' \in [Runs -> Places] /\ file' \in [Runs -> Files \cup {NoFile}]
         /\ payload' \in [Runs -> Seq(Versions)]
         /\ OthersStay(r) /\ pc'[r] = "idle"
BY DEF DayTypes, Ends, Go, Close, Keep, OthersStay, Places

LEMMA NextEndpointTypes ==
  ASSUME DayTypes, NEW r \in Runs, NextEndpoint(r)
  PROVE  /\ pc' \in [Runs -> Places] /\ file' \in [Runs -> Files \cup {NoFile}]
         /\ payload' \in [Runs -> Seq(Versions)]
         /\ OthersStay(r) /\ pc'[r] = "connecting" /\ UNCHANGED <<diskVars, offered>>
BY DEF DayTypes, NextEndpoint, Go, Keep, OthersStay, Places

LEMMA StepsElsewhere ==
  ASSUME DayInv, NEW r \in Runs, Elsewhere(r)
  PROVE  DayInv' /\ StepKeeps
<1>1. /\ DayTypes
      /\ pc[r] = "reading" => file[r] \in Files
      /\ pc[r] \in Committed => Whole(payload[r])
  BY DEF DayInv, RunInv
<1> SUFFICES /\ UNCHANGED <<diskVars, offered>> /\ OthersStay(r)
             /\ pc' \in [Runs -> Places] /\ file' \in [Runs -> Files \cup {NoFile}]
             /\ payload' \in [Runs -> Seq(Versions)]
             /\ pc[r] \notin {"writing", "replacing", "removing"}
             /\ pc'[r] \notin {"writing", "replacing", "removing"}
             /\ pc'[r] = "reading" => file'[r] \in Files
             /\ pc'[r] \in Committed => Whole(payload'[r])
  BY ElsewhereKeeps DEF HasTemporary
<1>2. CASE Start(r) \/ Request(r) \/ Connect(r)
  BY <1>1, <1>2 DEF Start, Request, Connect, Go, DayTypes, OthersStay, Committed, Places
<1>3. CASE Open(r)
  BY <1>1, <1>3 DEF Open, Go, DayTypes, OthersStay, Committed, Places
<1>4. CASE ReadSome(r)
  <2>1. Len(payload[r]) + 1 \in 1 .. Len(content[file[r]])
    BY <1>1, <1>4 DEF ReadSome, Left, DayTypes
  <2>2. content[file[r]][Len(payload[r]) + 1] \in Versions
    BY <1>1, <1>4, <2>1 DEF ReadSome, DayTypes
  <2> QED
    BY <1>1, <1>4, <2>2 DEF ReadSome, Keep, DayTypes, OthersStay, Committed
<1>5. CASE ReadDone(r)
  <2>1. CASE Decodes(payload[r])
    <3>1. Go(r, "printing") /\ Close(r) /\ UNCHANGED <<payload, diskVars, offered>>
      BY <1>5, <2>1 DEF ReadDone
    <3> QED
      BY <1>1, <1>5, <2>1, <3>1
      DEF ReadDone, Close, Go, Decodes, DayTypes, OthersStay, Committed, Places
  <2>2. CASE ~Decodes(payload[r])
    <3>1. Go(r, "connecting") /\ Close(r) /\ Keep(r, <<>>) /\ UNCHANGED <<diskVars, offered>>
      BY <1>5, <2>2 DEF ReadDone
    <3> QED
      BY <1>1, <1>5, <3>1
      DEF ReadDone, Close, Keep, Go, DayTypes, OthersStay, Committed, Places
  <2> QED
    BY <2>1, <2>2
<1>6. CASE ReadFails(r) \/ Answer(r) \/ NobodyHasIt(r)
  BY <1>1, <1>6, EndsTypes DEF ReadFails, Answer, NobodyHasIt, Committed
<1>7. CASE Ask(r)
  BY <1>1, <1>7 DEF Ask, Go, DayTypes, OthersStay, Committed, Places
<1>8. CASE Chunk(r)
  BY <1>1, <1>8 DEF Chunk, Go, Keep, DayTypes, OthersStay, Committed, Places
<1>9. CASE TransferFails(r) \/ DigestDiffers(r)
  BY <1>1, <1>9, NextEndpointTypes DEF TransferFails, DigestDiffers, Committed
<1>10. CASE Loaded(r)
  <2>1. CASE Ends(r)
    BY <1>1, <1>10, <2>1, EndsTypes DEF Loaded, Committed
  <2>2. CASE ~Ends(r)
    BY <1>1, <1>10, <2>2 DEF Loaded, Go, Decodes, DayTypes, OthersStay, Committed, Places
  <2> QED
    BY <2>1, <2>2
<1>11. CASE CreateFails(r)
  BY <1>1, <1>11 DEF CreateFails, Go, DayTypes, OthersStay, Committed, Places
<1> QED
  BY <1>2, <1>3, <1>4, <1>5, <1>6, <1>7, <1>8, <1>9, <1>10, <1>11 DEF Elsewhere

-----------------------------------------------------------------------------
(* Steps on the disk.                                                       *)

\* A run is not concerned by what happens to the files of others.
LEMMA BystanderKeeps ==
  ASSUME NEW s \in Runs, RunInv(s),
         pc'[s] = pc[s] /\ file'[s] = file[s] /\ payload'[s] = payload[s],
         HasTemporary(s) => content'[file[s]] = content[file[s]] /\ file[s] \in temps'
  PROVE  RunInv(s)'
<1>1. HasTemporary(s)' <=> HasTemporary(s)
  BY DEF HasTemporary
<1>2. pc'[s] = "writing" => Begins(content'[file'[s]], payload'[s])
  BY DEF RunInv, HasTemporary
<1>3. pc'[s] = "replacing" => content'[file'[s]] = payload'[s]
  BY DEF RunInv, HasTemporary
<1>4. pc'[s] \in Committed => Whole(payload'[s])
  BY DEF RunInv
<1>5. (pc'[s] = "reading" => file'[s] \in Files) /\ (HasTemporary(s)' => file'[s] \in temps')
  BY <1>1 DEF RunInv
<1> QED
  BY <1>2, <1>3, <1>4, <1>5 DEF RunInv, Begins

LEMMA CreateKeeps ==
  ASSUME DayInv, NEW r \in Runs, Create(r)
  PROVE  DayInv' /\ StepKeeps
<1> DEFINE f == CHOOSE f \in Temporary : TRUE
<1>1. f \in Temporary
  BY DEF Create
<1> HIDE DEF f
<1>2. f \in Files /\ f # target /\ f \notin temps /\ \A s \in Runs : file[s] # f
  BY <1>1 DEF Temporary, Unused
<1>3. /\ pc[r] = "creating" /\ ~HasTemporary(r)
      /\ file' = [file EXCEPT ![r] = f]
      /\ content' = [content EXCEPT ![f] = <<>>]
      /\ temps' = temps \cup {f}
      /\ pc' = [pc EXCEPT ![r] = "writing"]
      /\ UNCHANGED <<target, offered, payload>>
  BY DEF Create, Go, HasTemporary, f
<1>4. /\ pc'[r] = "writing" /\ file'[r] = f /\ content'[f] = <<>>
      /\ \A s \in Runs : s # r => pc'[s] = pc[s] /\ file'[s] = file[s]
      /\ \A g \in Files : g # f => content'[g] = content[g]
      /\ \A s \in Runs : s # r => (HasTemporary(s)' <=> HasTemporary(s))
      /\ HasTemporary(r)'
  BY <1>2, <1>3 DEF DayInv, DayTypes, HasTemporary
<1>5. DayTypes'
  <2>1. content' \in [Files -> Seq(Versions)]
    BY <1>2, <1>3 DEF DayInv, DayTypes
  <2> QED
    BY <1>2, <1>3, <2>1 DEF DayInv, DayTypes, Places
<1>6. target' \notin temps'
  BY <1>2, <1>3 DEF DayInv
<1>7. ASSUME NEW s \in Runs PROVE RunInv(s)'
  <2>1. CASE s = r
    <3>1. Whole(payload[r]) /\ Len(payload[r]) = Parts /\ Parts \in Nat \ {0}
      BY <1>3, WholeIs, PartsAssumption DEF DayInv, RunInv, Committed
    <3>2. Begins(content'[f], payload[r])
      BY <1>4, <3>1 DEF Begins
    <3>3. payload'[r] = payload[r] /\ Whole(payload'[r])
      BY <1>3, <3>1
    <3>4. file'[r] \in temps'
      BY <1>3, <1>4
    <3> QED
      BY <1>4, <2>1, <3>2, <3>3, <3>4 DEF RunInv, Whole, Begins, Versions
  <2>2. CASE s # r
    <3>1. RunInv(s) /\ pc'[s] = pc[s] /\ file'[s] = file[s] /\ payload'[s] = payload[s]
      BY <1>3, <1>4, <2>2 DEF DayInv
    <3>2. HasTemporary(s) => content'[file[s]] = content[file[s]] /\ file[s] \in temps'
      BY <1>2, <1>3, <1>4, <3>1 DEF RunInv, DayInv, DayTypes
    <3> QED
      BY <3>1, <3>2, BystanderKeeps
  <2> QED
    BY <2>1, <2>2
<1>8. NothingShared'
  BY <1>2, <1>4 DEF DayInv, NothingShared
<1>9. Good => Good'
  BY <1>2, <1>3, <1>4 DEF Good, DayInv, DayTypes, Whole, Versions
<1>10. Orphans' \subseteq Orphans
  BY <1>3, <1>4 DEF Orphans
<1> QED
  BY <1>5, <1>6, <1>7, <1>8, <1>9, <1>10 DEF DayInv, StepKeeps

LEMMA WriteSomeKeeps ==
  ASSUME DayInv, NEW r \in Runs, WriteSome(r)
  PROVE  DayInv' /\ StepKeeps
<1> DEFINE f == file[r]
           old == content[f]
           all == payload[r]
           new == Append(old, all[Len(old) + 1])
<1>1. /\ pc[r] = "writing" /\ HasTemporary(r) /\ f \in temps /\ f \in Files /\ f # target
      /\ Whole(all) /\ Begins(old, all) /\ old \in Seq(Versions)
      /\ all \in Seq(Versions) /\ Len(old) < Len(all)
  BY DEF WriteSome, Written, DayInv, DayTypes, RunInv, HasTemporary, Committed
<1>2. /\ content' = [content EXCEPT ![f] = new]
      /\ pc' = IF Len(old) + 1 = Len(all) THEN [pc EXCEPT ![r] = "replacing"] ELSE pc
      /\ UNCHANGED <<target, temps, offered, file, payload>>
  BY DEF WriteSome, Written, Go
<1> HIDE DEF f, old, all
<1>3. all[Len(old) + 1] \in Versions
  BY <1>1
<1>4. /\ new \in Seq(Versions) /\ Len(new) = Len(old) + 1
      /\ \A i \in 1 .. Len(new) : new[i] = all[i]
  BY <1>1, <1>3 DEF Begins
<1> HIDE DEF new
<1>5. /\ content'[f] = new
      /\ \A g \in Files : g # f => content'[g] = content[g]
      /\ \A s \in Runs : s # r => pc'[s] = pc[s]
      /\ pc'[r] = IF Len(old) + 1 = Len(all) THEN "replacing" ELSE "writing"
      /\ \A s \in Runs : (HasTemporary(s)' <=> HasTemporary(s))
  BY <1>1, <1>2 DEF DayInv, DayTypes, HasTemporary
<1>6. DayTypes'
  BY <1>1, <1>2, <1>4 DEF DayInv, DayTypes, Places
<1>7. ASSUME NEW s \in Runs PROVE RunInv(s)'
  <2>1. CASE s = r
    <3>1. payload'[r] = all /\ file'[r] = f /\ f \in temps'
      BY <1>1, <1>2 DEF all, f
    <3>2. Len(new) = Len(all) => new = all
      BY <1>1, <1>4
    <3>3. Len(new) # Len(all) => Begins(new, all)
      BY <1>1, <1>4 DEF Begins
    <3> QED
      BY <1>1, <1>4, <1>5, <2>1, <3>1, <3>2, <3>3 DEF RunInv, Whole, Begins, Versions
  <2>2. CASE s # r
    <3>1. RunInv(s) /\ pc'[s] = pc[s] /\ file'[s] = file[s] /\ payload'[s] = payload[s]
      BY <1>2, <1>5, <2>2 DEF DayInv
    <3>2. HasTemporary(s) => content'[file[s]] = content[file[s]] /\ file[s] \in temps'
      BY <1>1, <1>2, <1>5, <2>2, <3>1 DEF RunInv, DayInv, DayTypes, NothingShared, f
    <3> QED
      BY <3>1, <3>2, BystanderKeeps
  <2> QED
    BY <2>1, <2>2
<1>8. NothingShared' /\ target' \notin temps'
  BY <1>2, <1>5 DEF DayInv, NothingShared
<1>9. Good => Good'
  BY <1>1, <1>2, <1>5 DEF Good, DayInv, DayTypes, Whole, Versions
<1>10. Orphans' \subseteq Orphans
  BY <1>2, <1>5 DEF Orphans
<1> QED
  BY <1>6, <1>7, <1>8, <1>9, <1>10 DEF DayInv, StepKeeps

LEMMA WriteFailsKeeps ==
  ASSUME DayInv, NEW r \in Runs, WriteFails(r)
  PROVE  DayInv' /\ StepKeeps
<1>1. /\ pc[r] \in {"writing", "replacing"} /\ HasTemporary(r)
      /\ pc' = [pc EXCEPT ![r] = "removing"]
      /\ UNCHANGED <<diskVars, offered, file, payload>>
  BY DEF WriteFails, Go, AfterFailure, HasTemporary
<1>2. /\ pc'[r] = "removing" /\ \A s \in Runs : s # r => pc'[s] = pc[s]
      /\ \A s \in Runs : (HasTemporary(s)' <=> HasTemporary(s))
  BY <1>1 DEF DayInv, DayTypes, HasTemporary
<1>3. DayTypes'
  BY <1>1 DEF DayInv, DayTypes, Places
<1>4. ASSUME NEW s \in Runs PROVE RunInv(s)'
  BY <1>1, <1>2 DEF RunInv, DayInv, Committed, HasTemporary, Whole, Begins, Versions
<1>5. NothingShared' /\ target' \notin temps' /\ (Good => Good') /\ Orphans' \subseteq Orphans
  BY <1>1, <1>2 DEF DayInv, NothingShared, Good, Orphans, Whole, Versions
<1> QED
  BY <1>3, <1>4, <1>5 DEF DayInv, StepKeeps

LEMMA ReplaceKeeps ==
  ASSUME DayInv, NEW r \in Runs, Replace(r)
  PROVE  DayInv' /\ StepKeeps
<1> DEFINE f == file[r]
<1>1. /\ pc[r] = "replacing" /\ HasTemporary(r) /\ f \in temps /\ f \in Files /\ f # target
      /\ Whole(payload[r]) /\ content[f] = payload[r]
  BY DEF Replace, DayInv, DayTypes, RunInv, HasTemporary, Committed
<1>2. /\ Unlink(target) /\ target' = f /\ temps' = temps \ {f}
      /\ pc' = [pc EXCEPT ![r] = "printing"]
      /\ file' = [file EXCEPT ![r] = NoFile]
      /\ UNCHANGED <<offered, payload>>
  BY DEF Replace, Close, Go
<1> HIDE DEF f
<1>3. /\ content' \in [Files -> Seq(Versions)]
      /\ \A g \in Files : g # target => content'[g] = content[g]
  BY <1>2 DEF Unlink, DayInv, DayTypes
<1>4. /\ pc'[r] = "printing" /\ file'[r] = NoFile
      /\ \A s \in Runs : s # r => pc'[s] = pc[s] /\ file'[s] = file[s]
      /\ \A s \in Runs : s # r => (HasTemporary(s)' <=> HasTemporary(s))
      /\ ~HasTemporary(r)'
  BY <1>2 DEF DayInv, DayTypes, HasTemporary
<1>5. \A s \in Runs : s # r /\ HasTemporary(s) => file[s] # f /\ file[s] \in temps /\ file[s] # target
  BY <1>1 DEF DayInv, NothingShared, RunInv, f
<1>6. DayTypes'
  BY <1>1, <1>2, <1>3 DEF DayInv, DayTypes, Places
<1>7. ASSUME NEW s \in Runs PROVE RunInv(s)'
  <2>1. CASE s = r
    <3>1. Whole(payload'[r])
      BY <1>1, <1>2
    <3> QED
      BY <1>4, <2>1, <3>1 DEF RunInv
  <2>2. CASE s # r
    <3>1. RunInv(s) /\ pc'[s] = pc[s] /\ file'[s] = file[s] /\ payload'[s] = payload[s]
      BY <1>2, <1>4, <2>2 DEF DayInv
    <3>2. HasTemporary(s) => content'[file[s]] = content[file[s]] /\ file[s] \in temps'
      BY <1>2, <1>3, <1>5, <2>2 DEF DayInv, DayTypes
    <3> QED
      BY <3>1, <3>2, BystanderKeeps
  <2> QED
    BY <2>1, <2>2
<1>8. NothingShared' /\ target' \notin temps'
  BY <1>2, <1>4 DEF DayInv, NothingShared
<1>9. Good'
  <2>1. Whole(content'[f])
    BY <1>1, <1>3
  <2> QED
    BY <1>1, <1>2, <2>1, NoFileAssumption DEF Good
<1>10. Orphans' \subseteq Orphans
  BY <1>1, <1>2, <1>4, <1>5 DEF Orphans, f
<1> QED
  BY <1>6, <1>7, <1>8, <1>9, <1>10 DEF DayInv, StepKeeps

\* What a run does to its temporary file when it drops it, or is killed.
LEMMA DropKeeps ==
  ASSUME DayInv, NEW r \in Runs, ~HasTemporary(r)', OthersStay(r),
         pc' \in [Runs -> Places], file' \in [Runs -> Files \cup {NoFile}],
         payload' \in [Runs -> Seq(Versions)], content' \in [Files -> Seq(Versions)],
         UNCHANGED <<target, offered>>, temps' \subseteq temps,
         HasTemporary(r) \/ UNCHANGED <<content, temps>>,
         \A f \in temps : f \in temps' \/ f = file[r],
         \A f \in Files : f # file[r] => content'[f] = content[f],
         pc'[r] \in Committed => Whole(payload'[r]), pc'[r] # "reading"
  PROVE  DayInv' /\ (Good => Good')
<1>1. \A s \in Runs : s # r => (HasTemporary(s)' <=> HasTemporary(s))
  BY DEF HasTemporary, OthersStay
<1>2. DayTypes' /\ target' \notin temps'
  BY DEF DayInv, DayTypes
<1>3. ASSUME NEW s \in Runs PROVE RunInv(s)'
  <2>1. CASE s = r
    BY <2>1 DEF RunInv, HasTemporary
  <2>2. CASE s # r
    <3>1. RunInv(s) /\ pc'[s] = pc[s] /\ file'[s] = file[s] /\ payload'[s] = payload[s]
      BY <2>2 DEF OthersStay, DayInv
    <3>2. HasTemporary(s) => file[s] \in temps /\ file[s] \in Files
      BY <3>1 DEF RunInv, DayInv, DayTypes
    <3>3. HasTemporary(s) /\ HasTemporary(r) => file[s] # file[r]
      BY <2>2 DEF DayInv, NothingShared
    <3>4. HasTemporary(s) => content'[file[s]] = content[file[s]] /\ file[s] \in temps'
      BY <3>2, <3>3
    <3> QED
      BY <3>1, <3>4, BystanderKeeps
  <2> QED
    BY <2>1, <2>2
<1>4. NothingShared'
  BY <1>1 DEF NothingShared, DayInv, OthersStay
<1>5. Good => Good'
  <2> SUFFICES ASSUME Good PROVE Good'
    OBVIOUS
  <2>1. target \in Files /\ (HasTemporary(r) => file[r] # target)
    BY DEF Good, DayInv, DayTypes, RunInv
  <2>2. content'[target] = content[target]
    BY <2>1
  <2> QED
    BY <2>2 DEF Good
<1> QED
  BY <1>2, <1>3, <1>4, <1>5 DEF DayInv

LEMMA RemoveKeeps ==
  ASSUME DayInv, NEW r \in Runs, Remove(r)
  PROVE  DayInv' /\ StepKeeps
<1>1. /\ pc[r] = "removing" /\ HasTemporary(r) /\ Whole(payload[r])
      /\ Unlink(file[r]) /\ temps' = temps \ {file[r]}
      /\ pc' = [pc EXCEPT ![r] = "printing"]
      /\ file' = [file EXCEPT ![r] = NoFile]
      /\ UNCHANGED <<target, offered, payload>>
  BY DEF Remove, Close, Go, HasTemporary, DayInv, RunInv, Committed
<1>2. /\ content' \in [Files -> Seq(Versions)]
      /\ \A f \in Files : f # file[r] => content'[f] = content[f]
  BY <1>1 DEF Unlink, DayInv, DayTypes
<1>3. /\ pc'[r] = "printing" /\ OthersStay(r) /\ ~HasTemporary(r)'
      /\ pc' \in [Runs -> Places] /\ file' \in [Runs -> Files \cup {NoFile}]
      /\ payload' \in [Runs -> Seq(Versions)]
  BY <1>1 DEF DayInv, DayTypes, OthersStay, HasTemporary, Places
<1>4. Whole(payload'[r])
  BY <1>1
<1>5. DayInv' /\ (Good => Good')
  BY <1>1, <1>2, <1>3, <1>4, DropKeeps
<1>6. Orphans' \subseteq Orphans
  <2> SUFFICES ASSUME NEW f \in temps', NEW s \in Runs, HasTemporary(s), file[s] = f
               PROVE  HasTemporary(s)' /\ file'[s] = f
    BY <1>1 DEF Orphans
  <2>1. s # r
    BY <1>1
  <2> QED
    BY <1>3, <2>1 DEF OthersStay, HasTemporary
<1> QED
  BY <1>5, <1>6 DEF StepKeeps

LEMMA KilledKeeps ==
  ASSUME DayInv, NEW r \in Runs, Killed(r)
  PROVE  DayInv' /\ (Good => Good')
<1>1. /\ DayTypes /\ Ends(r) /\ UNCHANGED <<target, temps, offered>>
      /\ content' = [f \in Files |-> IF HasTemporary(r) /\ f = file[r] THEN <<>> ELSE content[f]]
  BY DEF Killed, DayInv
<1>2. /\ pc' \in [Runs -> Places] /\ file' \in [Runs -> Files \cup {NoFile}]
      /\ payload' \in [Runs -> Seq(Versions)]
      /\ OthersStay(r) /\ pc'[r] = "idle" /\ ~HasTemporary(r)'
  BY <1>1, EndsTypes DEF HasTemporary
<1>3. /\ content' \in [Files -> Seq(Versions)]
      /\ \A f \in Files : f # file[r] => content'[f] = content[f]
      /\ HasTemporary(r) \/ content' = content
  BY <1>1 DEF DayTypes
<1>4. pc'[r] \notin Committed /\ pc'[r] # "reading"
  BY <1>2 DEF Committed
<1> QED
  BY <1>1, <1>2, <1>3, <1>4, DropKeeps

LEMMA PowerFailsKeeps == DayInv /\ PowerFails => DayInv'
<1> SUFFICES ASSUME DayInv, PowerFails PROVE DayInv'
  OBVIOUS
<1>1. PICK left \in 0 .. Parts :
        content' = [f \in Files |-> IF f = target /\ Len(content[f]) >= left
                                    THEN SubSeq(content[f], 1, left) ELSE <<>>]
  BY DEF PowerFails
<1>2. ASSUME NEW f \in Files, Len(content[f]) >= left
      PROVE  SubSeq(content[f], 1, left) \in Seq(Versions)
  BY <1>2, PartsAssumption DEF DayInv, DayTypes
<1>3. content' \in [Files -> Seq(Versions)]
  BY <1>1, <1>2
<1>4. DayTypes' /\ target' \notin temps'
  BY <1>3 DEF DayInv, DayTypes, PowerFails, Places
<1>5. \A s \in Runs : pc'[s] = "idle" /\ RunInv(s)' /\ ~HasTemporary(s)'
  BY DEF PowerFails, RunInv, HasTemporary, Committed
<1> QED
  BY <1>4, <1>5 DEF DayInv, NothingShared

LEMMA ChangeKeeps ==
  ASSUME DayInv, ResourceChanges \/ UNCHANGED vars
  PROVE  DayInv' /\ StepKeeps
<1>1. UNCHANGED <<diskVars, pc, file, payload>>
  BY DEF ResourceChanges
<1>2. offered' \in Versions
  BY EndpointsAssumption DEF ResourceChanges, DayInv, DayTypes, Versions
<1>3. \A s \in Runs : HasTemporary(s)' <=> HasTemporary(s)
  BY <1>1 DEF HasTemporary
<1>4. DayTypes' /\ NothingShared' /\ target' \notin temps'
  BY <1>1, <1>2, <1>3 DEF DayInv, DayTypes, NothingShared
<1>5. \A s \in Runs : RunInv(s)'
  BY <1>1, BystanderKeeps DEF DayInv, RunInv
<1>6. StepKeeps
  BY <1>1, <1>3 DEF StepKeeps, Good, Orphans
<1> QED
  BY <1>4, <1>5, <1>6 DEF DayInv

-----------------------------------------------------------------------------
(* The theorems.                                                            *)

LEMMA DayInvNext ==
  ASSUME DayInv, [Next]_vars
  PROVE  /\ DayInv'
         /\ (Good => Good') \/ PowerFails
         /\ Orphans' \subseteq Orphans \/ PowerFails \/ \E r \in Runs : Killed(r)
<1>1. ASSUME NEW r \in Runs, Start(r) \/ RunStep(r) PROVE DayInv' /\ StepKeeps
  <2>1. CASE Elsewhere(r)
    BY <2>1, StepsElsewhere
  <2>2. CASE Create(r)
    BY <2>2, CreateKeeps
  <2>3. CASE WriteSome(r)
    BY <2>3, WriteSomeKeeps
  <2>4. CASE WriteFails(r)
    BY <2>4, WriteFailsKeeps
  <2>5. CASE Replace(r)
    BY <2>5, ReplaceKeeps
  <2>6. CASE Remove(r)
    BY <2>6, RemoveKeeps
  <2> QED
    BY <1>1, <2>1, <2>2, <2>3, <2>4, <2>5, <2>6 DEF RunStep, Elsewhere
<1>2. ASSUME NEW r \in Runs, Killed(r) PROVE DayInv' /\ (Good => Good')
  BY <1>2, KilledKeeps
<1>3. CASE PowerFails
  BY <1>3, PowerFailsKeeps
<1>4. CASE ResourceChanges \/ UNCHANGED vars
  BY <1>4, ChangeKeeps DEF StepKeeps
<1> QED
  BY <1>1, <1>2, <1>3, <1>4 DEF Next, StepKeeps

LEMMA DayInvHolds == Spec => []DayInv
<1>1. DayInv /\ [Next]_vars => DayInv'
  BY DayInvNext
<1> QED
  BY <1>1, DayInvInit, PTL DEF Spec

\* Short of a power failure nothing that happens to the processes loses a good
\* copy of the day file, and what is printed is one version of it, whole
\* (tdx_cache_write, tdx_download_resource and tdx_zst_day_run).
THEOREM GoodCopyIsKept == Spec => KeepsAGoodCopy
<1>1. DayInv /\ [Next]_vars => [Good => Good' \/ PowerFails]_vars
  BY DayInvNext
<1>2. DayInv => \A r \in Runs : pc[r] = "printing" => Whole(payload[r])
  BY DEF DayInv, RunInv, Committed
<1> QED
  BY <1>1, <1>2, DayInvHolds, PTL DEF Spec, KeepsAGoodCopy

\* No two processes write to the same temporary file, and none but one that is
\* killed leaves its own behind (make_temporary and the cleanup of
\* tdx_cache_write).
THEOREM TemporariesHaveOneOwner == Spec => TemporariesAreOwned
<1>1. DayInv /\ [Next]_vars =>
        [Orphans' \subseteq Orphans \/ PowerFails \/ \E r \in Runs : Killed(r)]_vars
  BY DayInvNext
<1>2. DayInv => \A r, s \in Runs : HasTemporary(r) /\ HasTemporary(s) /\ file[r] = file[s] => r = s
  BY DEF DayInv, NothingShared
<1> QED
  BY <1>1, <1>2, DayInvHolds, PTL DEF Spec, TemporariesAreOwned

=============================================================================
