------------------------------ MODULE Downloads ------------------------------
(***************************************************************************)
(* Downloads: the CURL provider, and the loops of HVInstance that download *)
(* a file into the cache, check it and retry.  One thread makes the calls, *)
(* with a provider of its own; other threads abort its transfers, and the  *)
(* process may die at any point and leave what it has written.             *)
(*                                                                         *)
(* A step of job names where the thread is: job.at is the line of the      *)
(* procedure it works on, job.then where a transfer goes on to, job.i the  *)
(* counter of the loop.                                                    *)
(***************************************************************************)
EXTENDS Naturals

CONSTANTS Retries,
          MaxFaults, MaxCalls, MaxStops  \* bounds of the instance: failures, calls, aborts and crashes

VARIABLES disk,       \* the contents of each file
          stream,     \* fStream is open
          abortFlag, abortPersistsFlag,
          job, faults, calls, stops,
          returned    \* the last call and its answer

dlVars == <<disk, stream, abortFlag, abortPersistsFlag, job, faults, calls, stops, returned>>

(* What a file may hold: nothing written yet, a part, other bytes, the     *)
(* bytes expected.  A checksum file may be too short ("part"), no checksum *)
(* ("bad"), or the checksum of other bytes ("wrong").                      *)
File    == {"checksum", "image", "archive", "extracted", "pack", "installer"}
Content == {"none", "part", "bad", "wrong", "good"}

NoJob == [call |-> "none"]
Idle  == job = NoJob
At(label) == ~Idle /\ job.at = label
Exists(f) == disk[f] # "none"

ASSUME RetriesAssumption == Retries \in Nat \ {0}

DownloadsInit ==
    /\ disk = [f \in File |-> "none"]
    /\ stream = FALSE /\ abortFlag = FALSE /\ abortPersistsFlag = FALSE
    /\ job = NoJob /\ faults = 0 /\ calls = 0 /\ stops = 0
    /\ returned = [call |-> "none", answer |-> "none"]

\* Steps of a procedure.
NoChange  == UNCHANGED <<stream, abortFlag, abortPersistsFlag, calls, stops>>
Steps(j)  == job' = j /\ UNCHANGED returned
Goes(to)  == Steps([job EXCEPT !.at = to])
Starts(to) == Steps([job EXCEPT !.at = to, !.i = 0])
Again(to) == Steps([job EXCEPT !.at = to, !.i = @ + 1])
Fetches(f, then) == Steps([job EXCEPT !.at = "open", !.file = f, !.then = then])
Reads(then)      == Steps([job EXCEPT !.at = "text", !.then = then])
Returns(answer)  == job' = NoJob /\ returned' = [call |-> job.call, answer |-> answer]
Same      == UNCHANGED disk
Removes(fs) == disk' = [f \in File |-> IF f \in fs THEN "none" ELSE disk[f]]
NoFault   == UNCHANGED faults
OneFault  == faults < MaxFaults /\ faults' = faults + 1

Begins(call, at) ==
    /\ Idle /\ calls < MaxCalls /\ calls' = calls + 1
    /\ job' = [call |-> call, at |-> at, i |-> 0, file |-> "image", then |-> at, res |-> "OK", expect |-> "good"]
    /\ returned' = [call |-> "none", answer |-> "none"]
    /\ UNCHANGED <<disk, stream, abortFlag, abortPersistsFlag, faults, stops>>

(***************************************************************************)
(* CURLProvider.  A transfer that fails leaves the stream open, and a      *)
(* stream that is open cannot be opened again.                             *)
(***************************************************************************)
Operating == ~Idle /\ job.at \in {"open", "transfer", "text"}
Ends(res) == Steps([job EXCEPT !.at = job.then, !.res = res])

OpenStream ==
    /\ At("open")
    /\ IF stream THEN Ends("IO_ERROR") /\ UNCHANGED <<disk, stream>>
       ELSE /\ stream' = TRUE /\ Goes("transfer")
            /\ disk' = [disk EXCEPT ![job.file] = "part"]
    /\ UNCHANGED <<abortFlag, abortPersistsFlag, faults, calls, stops>>

Transfer ==
    /\ At("transfer")
    /\ \/ /\ disk' = [disk EXCEPT ![job.file] = "good"] /\ NoFault
          /\ stream' = FALSE /\ Ends("OK")
       \/ /\ OneFault
          /\ \E c \in {"part", "bad"} \cup (IF job.file = "checksum" THEN {"wrong"} ELSE {}) :
                disk' = [disk EXCEPT ![job.file] = c]
          /\ stream' = FALSE /\ Ends("OK")
       \/ OneFault /\ Ends("IO_ERROR") /\ UNCHANGED <<disk, stream>>
    /\ UNCHANGED <<abortFlag, abortPersistsFlag, calls, stops>>

\* downloadText: a string, with a buffer of its own.
TransferText ==
    /\ At("text")
    /\ \/ NoFault /\ Ends("OK")
       \/ OneFault /\ \E res \in {"BAD", "IO_ERROR"} : Ends(res)
    /\ Same /\ NoChange

\* __curl_xferinfo
TransferAborted ==
    /\ At("transfer") \/ At("text")
    /\ abortFlag /\ abortFlag' = abortPersistsFlag
    /\ Ends("IO_ERROR")
    /\ UNCHANGED <<disk, stream, abortPersistsFlag, faults, calls, stops>>

AbortTransfer ==
    /\ Operating /\ stops < MaxStops /\ stops' = stops + 1
    /\ abortFlag' = TRUE /\ abortPersistsFlag' = FALSE
    /\ UNCHANGED <<disk, stream, job, faults, calls, returned>>

AbortAllTransfers ==
    /\ stops < MaxStops /\ stops' = stops + 1
    /\ abortFlag' = TRUE /\ abortPersistsFlag' = TRUE
    /\ UNCHANGED <<disk, stream, job, faults, calls, returned>>

(***************************************************************************)
(* __downloadChecksum.  A checksum file with other characters than those   *)
(* of a checksum is downloaded again without being counted as a try.       *)
(***************************************************************************)
Checksum ==
    /\ At("checksum") /\ NoFault /\ NoChange
    /\ IF job.i = Retries     THEN Removes({"checksum"}) /\ Returns("IO_ERROR")
       ELSE IF Exists("checksum") THEN Goes("checkChecksum") /\ Same
       ELSE Fetches("checksum", "gotChecksum") /\ Same

GotChecksum ==
    /\ At("gotChecksum") /\ NoFault /\ NoChange
    /\ IF job.res = "OK" THEN Goes("checkChecksum") /\ Same
       ELSE Removes({"checksum"}) /\ Again("checksum")

CheckChecksum ==
    /\ At("checkChecksum") /\ NoFault /\ NoChange
    /\ CASE disk["checksum"] = "part" -> Removes({"checksum"}) /\ Again("checksum")
         [] disk["checksum"] = "bad"  -> Removes({"checksum"}) /\ Goes("checksum")
         [] OTHER -> Same /\ Steps([job EXCEPT !.at = "image", !.i = 0, !.expect = disk["checksum"]])

(***************************************************************************)
(* __downloadFile                                                          *)
(***************************************************************************)
Image ==
    /\ At("image") /\ NoFault /\ NoChange
    /\ IF job.i = Retries  THEN Removes({"image"}) /\ Returns("IO_ERROR")
       ELSE IF Exists("image") THEN Goes("checkImage") /\ Same
       ELSE Fetches("image", "gotImage") /\ Same

GotImage ==
    /\ At("gotImage") /\ NoFault /\ NoChange
    /\ IF job.res = "OK" THEN Goes("checkImage") /\ Same
       ELSE Removes({"image"}) /\ Again("image")

CheckImage ==
    /\ At("checkImage") /\ NoFault /\ NoChange
    /\ IF disk["image"] = job.expect THEN Same /\ Returns("OK")
       ELSE Removes({"image"}) /\ Again("image")

(***************************************************************************)
(* downloadFileGZ: the archive is checked, extracted and removed.  The     *)
(* caller takes the suffix off the name it is handed and so gets the       *)
(* extracted file.                                                         *)
(***************************************************************************)
Archive ==
    /\ At("archive") /\ NoFault /\ NoChange
    /\ IF job.i = Retries THEN Removes({"archive", "extracted"}) /\ Returns("IO_ERROR")
       ELSE /\ Same
            /\ IF Exists("extracted") \/ Exists("archive") THEN Goes("checkArchive")
               ELSE Fetches("archive", "gotArchive")

GotArchive ==
    /\ At("gotArchive") /\ NoFault /\ NoChange
    /\ IF job.res = "OK" THEN Goes("checkArchive") /\ Same
       ELSE Removes({"archive"}) /\ Again("archive")

CheckArchive ==
    /\ At("checkArchive") /\ NoFault /\ NoChange
    /\ IF Exists("extracted") \/ ~Exists("archive") THEN Goes("haveExtracted") /\ Same
       ELSE IF disk["archive"] = "good" THEN Goes("extract") /\ disk' = [disk EXCEPT !["extracted"] = "part"]
       ELSE Removes({"archive"}) /\ Again("archive")

Extract ==
    /\ At("extract") /\ NoChange
    /\ \/ NoFault /\ Goes("extracted") /\ disk' = [disk EXCEPT !["extracted"] = "good"]
       \/ OneFault /\ Removes({"archive", "extracted"}) /\ Again("archive")

Extracted ==
    /\ At("extracted") /\ NoFault /\ NoChange
    /\ Removes({"archive"}) /\ Goes("haveExtracted")

\* Deviation: an extracted file is enough.
HaveExtractedAlone ==
    /\ At("haveExtracted") /\ NoFault /\ NoChange /\ Same
    /\ IF Exists("extracted") THEN Returns("OK") ELSE Again("archive")

HaveExtracted ==
    /\ At("haveExtracted") /\ NoFault /\ NoChange /\ Same
    /\ IF Exists("extracted") /\ ~Exists("archive") THEN Returns("OK") ELSE Again("archive")

(***************************************************************************)
(* cernVMDownload                                                          *)
(***************************************************************************)
Latest ==
    /\ At("latest") /\ NoFault /\ NoChange /\ Same
    /\ IF job.i = Retries THEN Returns("IO_ERROR") ELSE Reads("gotLatest")

GotLatest ==
    /\ At("gotLatest") /\ NoFault /\ NoChange /\ Same
    /\ CASE job.res = "OK"  -> Starts("checksum")
         [] job.res = "BAD" -> Returns("NOT_VALIDATED")
         [] OTHER           -> Again("latest")

(***************************************************************************)
(* A session calls, the process dies.                                      *)
(***************************************************************************)
DownloadCalls ==
    \/ Begins("cernVMDownload", "latest") \/ Begins("downloadFileURL", "checksum")
    \/ Begins("downloadFile", "image") \/ Begins("downloadFileGZ", "archive")

DownloadsDie ==
    /\ stops < MaxStops /\ stops' = stops + 1
    /\ stream' = FALSE /\ abortFlag' = FALSE /\ abortPersistsFlag' = FALSE
    /\ job' = NoJob /\ returned' = [call |-> "none", answer |-> "none"]
    /\ UNCHANGED <<disk, faults, calls>>

DownloadSteps ==
    \/ OpenStream \/ Transfer \/ TransferText \/ TransferAborted
    \/ Checksum \/ GotChecksum \/ CheckChecksum \/ Image \/ GotImage \/ CheckImage
    \/ Archive \/ GotArchive \/ CheckArchive \/ Extract \/ Extracted \/ HaveExtracted
    \/ Latest \/ GotLatest
=============================================================================
