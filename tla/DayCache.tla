------------------------------ MODULE DayCache ------------------------------
(***************************************************************************)
(* The historical day command (c/src/tdx_zst_day.c) over its file cache    *)
(* (tdx_cache.c) and the chunked transfer (tdx_download.c): several        *)
(* processes look for the same day file, transfer it when the cached copy  *)
(* is missing or spoiled, and replace it, while any of them may be killed, *)
(* the power may fail and the resource may change upstream.                *)
(*                                                                         *)
(* Content is a sequence of parts, each of some version of the resource.   *)
(* Files are modelled by what a file system keeps: a file lives as long as *)
(* it has a name or is open.  A run without a cache directory touches no   *)
(* file and is left out.                                                   *)
(***************************************************************************)
EXTENDS Integers, Sequences, FiniteSets

CONSTANTS
  Runs,         \* processes
  Files,        \* room on the disk
  NoFile,
  Parts,        \* length of the resource
  Endpoints,    \* pool->count
  MaxVersion    \* bound: the resource changes MaxVersion - 1 times

ASSUME PartsAssumption == Parts \in Nat \ {0}
ASSUME EndpointsAssumption == Endpoints \in Nat /\ MaxVersion \in Nat \ {0}
ASSUME NoFileAssumption == NoFile \notin Files

VARIABLES
  content,      \* what each file holds
  target,       \* the file named by the cache path
  temps,        \* files with a temporary name
  offered,      \* the version of the resource upstream
  pc,           \* where each run is
  file,         \* the file a run reads or writes
  payload,      \* its buffer
  attempt,      \* endpoints it has tried
  digest        \* the digest it was told, 0 for none

diskVars == <<content, target, temps>>
transferVars == <<attempt, digest>>
vars == <<diskVars, offered, pc, file, payload, transferVars>>

Versions == 1 .. MaxVersion

Init ==
  /\ content = [f \in Files |-> <<>>]
  /\ target = NoFile /\ temps = {}
  /\ offered = 1
  /\ pc = [r \in Runs |-> "idle"]
  /\ file = [r \in Runs |-> NoFile]
  /\ payload = [r \in Runs |-> <<>>]
  /\ attempt = [r \in Runs |-> 0] /\ digest = [r \in Runs |-> 0]

Go(r, place) == pc' = [pc EXCEPT ![r] = place]

Close(r) == file' = [file EXCEPT ![r] = NoFile]

Keep(r, bytes) == payload' = [payload EXCEPT ![r] = bytes]

Disconnect(r) ==
  /\ attempt' = [attempt EXCEPT ![r] = 0] /\ digest' = [digest EXCEPT ![r] = 0]

\* The run is over, with or without a result: its locals are gone.
Ends(r) ==
  /\ Go(r, "idle") /\ Close(r) /\ Keep(r, <<>>)
  /\ Disconnect(r)

Whole(bytes) == \E v \in Versions : bytes = [i \in 1 .. Parts |-> v]

\* decode_payload: a checksum finds out what is cut short or pieced together.
Decodes(bytes) == Whole(bytes)

-----------------------------------------------------------------------------
(* tdx_zst_day_run and tdx_cache_read.                                      *)

Start(r) ==
  /\ pc[r] = "idle"
  /\ \E refresh \in BOOLEAN : Go(r, IF refresh THEN "connecting" ELSE "opening")
  /\ UNCHANGED <<diskVars, offered, file, payload, transferVars>>

Open(r) ==
  /\ pc[r] = "opening"
  /\ file' = [file EXCEPT ![r] = target]
  /\ Go(r, IF target = NoFile THEN "connecting" ELSE "reading")
  /\ UNCHANGED <<diskVars, offered, payload, transferVars>>

Left(r) == Len(content[file[r]]) - Len(payload[r])

ReadSome(r) ==
  /\ pc[r] = "reading" /\ Left(r) > 0
  /\ Keep(r, Append(payload[r], content[file[r]][Len(payload[r]) + 1]))
  /\ UNCHANGED <<diskVars, offered, pc, file, transferVars>>

\* A hit, or a spoiled copy, which is fetched again.
ReadDone(r) ==
  /\ pc[r] = "reading" /\ Left(r) <= 0
  /\ Close(r)
  /\ IF Decodes(payload[r]) THEN Go(r, "printing") /\ UNCHANGED payload
     ELSE Go(r, "connecting") /\ Keep(r, <<>>)
  /\ UNCHANGED <<diskVars, offered, transferVars>>

\* A file that is there and cannot be read fails the run.
ReadFails(r) ==
  /\ pc[r] \in {"opening", "reading"}
  /\ Ends(r)
  /\ UNCHANGED <<diskVars, offered>>

Answer(r) ==
  /\ pc[r] = "printing"
  /\ Ends(r)
  /\ UNCHANGED <<diskVars, offered>>

-----------------------------------------------------------------------------
(* tdx_download_resource: one endpoint after the other.                     *)

NextEndpoint(r) ==
  /\ Go(r, "connecting") /\ Keep(r, <<>>)
  /\ digest' = [digest EXCEPT ![r] = 0]
  /\ UNCHANGED <<diskVars, offered, file, attempt>>

Connect(r) ==
  /\ pc[r] = "connecting" /\ attempt[r] < Endpoints
  /\ attempt' = [attempt EXCEPT ![r] = @ + 1]
  /\ \E open \in BOOLEAN : Go(r, IF open THEN "asking" ELSE "connecting")
  /\ UNCHANGED <<diskVars, offered, file, payload, digest>>

NobodyHasIt(r) ==
  /\ pc[r] = "connecting" /\ attempt[r] = Endpoints
  /\ Ends(r)
  /\ UNCHANGED <<diskVars, offered>>

\* tdx_download_info: a digest need not be announced.
Ask(r) ==
  /\ pc[r] = "asking"
  /\ \E told \in {0, offered} : digest' = [digest EXCEPT ![r] = told]
  /\ Go(r, "loading")
  /\ UNCHANGED <<diskVars, offered, file, payload, attempt>>

\* Mutant of LeastChunk: an empty chunk is asked for again.
AnyChunk == 0

LeastChunk == 1

Request(r) ==
  /\ pc[r] = "loading" /\ Len(payload[r]) < Parts
  /\ Go(r, "waiting")
  /\ UNCHANGED <<diskVars, offered, file, payload, transferVars>>

\* A chunk may be shorter than what was asked for.
Chunk(r) ==
  /\ pc[r] = "waiting"
  /\ Go(r, "loading")
  /\ \E size \in LeastChunk .. Parts - Len(payload[r]) :
       Keep(r, payload[r] \o [i \in 1 .. size |-> offered])
  /\ UNCHANGED <<diskVars, offered, file, transferVars>>

\* An error, a time-out, an empty chunk.
TransferFails(r) ==
  /\ pc[r] \in {"asking", "waiting"}
  /\ NextEndpoint(r)

Matches(r) == digest[r] = 0 \/ payload[r] = [i \in 1 .. Parts |-> digest[r]]

DigestDiffers(r) ==
  /\ pc[r] = "loading" /\ Len(payload[r]) = Parts
  /\ ~Matches(r)
  /\ NextEndpoint(r)

\* Only what decodes is committed.
Loaded(r) ==
  /\ pc[r] = "loading" /\ Len(payload[r]) = Parts
  /\ Matches(r)
  /\ IF Decodes(payload[r])
     THEN Go(r, "creating") /\ Disconnect(r) /\ UNCHANGED <<file, payload>>
     ELSE Ends(r)
  /\ UNCHANGED <<diskVars, offered>>

-----------------------------------------------------------------------------
(* tdx_cache_write.                                                         *)

Unused(f) == f # target /\ f \notin temps /\ \A s \in Runs : file[s] # f

\* Mutant of Temporary: writers of the same entry use the same temporary name.
SharedTemporary == IF temps = {} THEN {f \in Files : Unused(f)} ELSE temps

\* mkstemp: a name that nobody has.
Temporary == {f \in Files : Unused(f)}

Create(r) ==
  /\ pc[r] = "creating"
  /\ Temporary # {}
  /\ LET f == CHOOSE f \in Temporary : TRUE IN
       /\ file' = [file EXCEPT ![r] = f]
       /\ content' = [content EXCEPT ![f] = <<>>]
       /\ temps' = temps \cup {f}
  /\ Go(r, "writing")
  /\ UNCHANGED <<target, offered, payload, transferVars>>

\* A cache that cannot be written is only worth a warning.
CreateFails(r) ==
  /\ pc[r] = "creating"
  /\ Go(r, "printing")
  /\ UNCHANGED <<diskVars, offered, file, payload, transferVars>>

Written(r) == Len(content[file[r]])

\* The last part is followed by fclose.
WriteSome(r) ==
  /\ pc[r] = "writing" /\ Written(r) < Len(payload[r])
  /\ content' = [content EXCEPT ![file[r]] = Append(@, payload[r][Written(r) + 1])]
  /\ IF Written(r) + 1 = Len(payload[r]) THEN Go(r, "replacing") ELSE UNCHANGED pc
  /\ UNCHANGED <<target, temps, offered, file, payload, transferVars>>

\* A file that loses its name is gone, unless it is open.
Unlink(f) ==
  content' = [g \in Files |-> IF g = f /\ \A s \in Runs : pc[s] = "reading" => file[s] # f
                             THEN <<>> ELSE content[g]]

Replace(r) ==
  /\ pc[r] = "replacing"
  /\ Unlink(target)
  /\ target' = file[r]
  /\ temps' = temps \ {file[r]}
  /\ Close(r)
  /\ Go(r, "printing")
  /\ UNCHANGED <<offered, payload, transferVars>>

\* Mutant of AfterFailure: a failed write leaves its temporary behind.
JustGoOn == "printing"

AfterFailure == "removing"

\* A short write, a failing close, a replacement refused (on Windows, fifty
\* times): the entry is left as it is.
WriteFails(r) ==
  /\ pc[r] \in {"writing", "replacing"}
  /\ Go(r, AfterFailure)
  /\ UNCHANGED <<diskVars, offered, file, payload, transferVars>>

Remove(r) ==
  /\ pc[r] = "removing"
  /\ Unlink(file[r])
  /\ temps' = temps \ {file[r]}
  /\ Close(r)
  /\ Go(r, "printing")
  /\ UNCHANGED <<target, offered, payload, transferVars>>

-----------------------------------------------------------------------------
(* What happens to the runs.  Nobody opens a temporary that is left behind:  *)
(* what it holds does not matter.                                           *)

HasTemporary(r) == pc[r] \in {"writing", "replacing", "removing"}

Killed(r) ==
  /\ pc[r] # "idle"
  /\ Ends(r)
  /\ content' = [f \in Files |-> IF HasTemporary(r) /\ f = file[r] THEN <<>> ELSE content[f]]
  /\ UNCHANGED <<target, temps, offered>>

\* Nothing is flushed to the disk: the file that has been moved to the cache path
\* may come back cut short.
PowerFails ==
  /\ \E left \in 0 .. Parts :
       content' = [f \in Files |-> IF f = target /\ Len(content[f]) >= left
                                  THEN SubSeq(content[f], 1, left) ELSE <<>>]
  /\ pc' = [r \in Runs |-> "idle"]
  /\ file' = [r \in Runs |-> NoFile]
  /\ payload' = [r \in Runs |-> <<>>]
  /\ attempt' = [r \in Runs |-> 0] /\ digest' = [r \in Runs |-> 0]
  /\ UNCHANGED <<target, temps, offered>>

ResourceChanges ==
  /\ offered < MaxVersion
  /\ offered' = offered + 1
  /\ UNCHANGED <<diskVars, pc, file, payload, transferVars>>

RunStep(r) ==
  \/ Open(r) \/ ReadSome(r) \/ ReadDone(r) \/ ReadFails(r) \/ Answer(r)
  \/ Connect(r) \/ NobodyHasIt(r) \/ Ask(r) \/ Request(r) \/ Chunk(r)
  \/ TransferFails(r) \/ DigestDiffers(r) \/ Loaded(r)
  \/ Create(r) \/ CreateFails(r) \/ WriteSome(r)
  \/ Replace(r) \/ WriteFails(r) \/ Remove(r)

Next ==
  \/ \E r \in Runs : Start(r) \/ RunStep(r) \/ Killed(r)
  \/ PowerFails \/ ResourceChanges

Spec == Init /\ [][Next]_vars

\* A process that is not killed is scheduled, and its calls to the network and
\* the disk return.
FairSpec == Spec /\ \A r \in Runs : WF_vars(RunStep(r))

-----------------------------------------------------------------------------
(* Properties.                                                              *)

Places ==
  {"idle", "opening", "reading", "connecting", "asking", "loading", "waiting",
   "creating", "writing", "replacing", "removing", "printing"}

Contents == UNION {[1 .. n -> Versions] : n \in 0 .. Parts}

TypeOK ==
  /\ content \in [Files -> Contents]
  /\ target \in Files \cup {NoFile} /\ temps \subseteq Files
  /\ offered \in Versions
  /\ pc \in [Runs -> Places]
  /\ file \in [Runs -> Files \cup {NoFile}]
  /\ payload \in [Runs -> Contents]
  /\ attempt \in [Runs -> 0 .. Endpoints] /\ digest \in [Runs -> 0 .. MaxVersion]

Good == target # NoFile /\ Whole(content[target])

\* A good copy is never lost: not to a write that fails half way, to a process
\* that is killed, to another that replaces the same entry at the same time, or
\* to a transfer that does not decode. Only a power failure can spoil it. And
\* what is printed is one version, whole, though the entry be replaced while it
\* is read or the resource change between two chunks.
KeepsAGoodCopy ==
  /\ [][Good => Good' \/ PowerFails]_vars
  /\ [](\A r \in Runs : pc[r] = "printing" => Whole(payload[r]))

Orphans == {f \in temps : \A r \in Runs : ~HasTemporary(r) \/ file[r] # f}

\* A temporary belongs to the one run that is writing it; only a run that is
\* killed leaves one behind.
TemporariesAreOwned ==
  /\ [](\A r, s \in Runs : HasTemporary(r) /\ HasTemporary(s) /\ file[r] = file[s] => r = s)
  /\ [][Orphans' \subseteq Orphans \/ PowerFails \/ \E r \in Runs : Killed(r)]_vars

\* Every run ends, although a server may answer any number of short chunks.
RunsEnd == \A r \in Runs : pc[r] # "idle" ~> pc[r] = "idle"

=============================================================================
