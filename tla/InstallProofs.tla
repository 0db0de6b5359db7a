---------------------------- MODULE InstallProofs ----------------------------
(***************************************************************************)
(* Proofs about Downloads, UserInteraction and Install: what a download    *)
(* hands out, what an installer is given, and what abort(true) waits for.  *)
(***************************************************************************)
EXTENDS Install, TLAPS

(***************************************************************************)
(* The shape of the thread's job.  Place is where the procedure is, the    *)
(* transfer it waits for left aside.                                       *)
(***************************************************************************)
JobFields == {"call", "at", "i", "file", "then", "res", "expect"}
Transfers == {"open", "transfer", "text"}
Place     == IF job.at \in Transfers THEN job.then ELSE job.at

LatestAt    == {"latest", "gotLatest"}
ChecksumAt  == {"checksum", "gotChecksum", "checkChecksum"}
ImageAt     == {"image", "gotImage", "checkImage"}
ArchiveAt   == {"archive", "gotArchive", "checkArchive", "extract", "extracted", "haveExtracted"}
QuestionAt  == {"ready", "confirmed", "alert", "alerted", "sessions", "license", "licensed",
       "extPackEnds"}
PackAt      == {"extPack", "packSignature", "packConfig", "gotPack", "installPack"}
ConfigAt    == {"config", "signature", "gotConfig", "keys"}
InstallAt   == {"installer", "gotInstaller", "install", "detect"}

\* Where the procedures of the calls are.
InItsProcedure ==
    \/ job.call = "cernVMDownload"  /\ Place \in LatestAt \cup ChecksumAt \cup ImageAt
    \/ job.call = "downloadFileURL" /\ Place \in ChecksumAt \cup ImageAt
    \/ job.call = "downloadFile"    /\ Place \in ImageAt
    \/ job.call = "downloadFileGZ"  /\ Place \in ArchiveAt
    \/ job.call = "waitTillReady"   /\ Place \in QuestionAt \cup PackAt
    \/ job.call = "vboxInstall"     /\ Place \in ConfigAt \cup InstallAt

\* What a transfer is for: a file, or the text of a configuration.
ForItsFile ==
    /\ job.file \in File
    /\ job.at \in {"open", "transfer"} =>
         \/ job.file = "checksum"  /\ job.then = "gotChecksum"
         \/ job.file = "image"     /\ job.then = "gotImage"
         \/ job.file = "archive"   /\ job.then = "gotArchive"
         \/ job.file = "pack"      /\ job.then = "gotPack"
         \/ job.file = "installer" /\ job.then = "gotInstaller"
    /\ job.at = "text" =>
         job.then \in {"gotLatest", "packSignature", "packConfig", "signature", "gotConfig"}

\* A try that goes on is one of those that are allowed.
InALoop == {"gotLatest", "gotChecksum", "checkChecksum", "gotImage", "checkImage",
            "gotArchive", "checkArchive", "extract", "extracted", "haveExtracted",
            "signature", "gotConfig", "gotInstaller", "detect"}
Counts == job.i \in 0 .. Retries /\ (Place \in InALoop => job.i < Retries)

Working ==
    /\ DOMAIN job = JobFields
    /\ InItsProcedure /\ ForItsFile /\ Counts
    /\ returned.answer = "none"

JobOK == Idle \/ Working

(***************************************************************************)
(* What the steps of a procedure make of the job.                          *)
(***************************************************************************)
Becomes(at, i, file, then, res, expect) ==
    /\ DOMAIN job' = JobFields /\ returned' = returned
    /\ job'.call = job.call /\ job'.at = at /\ job'.i = i /\ job'.file = file
    /\ job'.then = then /\ job'.res = res /\ job'.expect = expect

LEMMA GoesOn ==
    ASSUME DOMAIN job = JobFields, NEW to, Goes(to)
    PROVE  Becomes(to, job.i, job.file, job.then, job.res, job.expect)
BY SMT DEF Becomes, Goes, Steps, JobFields

LEMMA StartsOn ==
    ASSUME DOMAIN job = JobFields, NEW to, Starts(to)
    PROVE  Becomes(to, 0, job.file, job.then, job.res, job.expect)
BY SMT DEF Becomes, Starts, Steps, JobFields

LEMMA AgainOn ==
    ASSUME DOMAIN job = JobFields, NEW to, Again(to)
    PROVE  Becomes(to, job.i + 1, job.file, job.then, job.res, job.expect)
BY SMT DEF Becomes, Again, Steps, JobFields

LEMMA FetchesOn ==
    ASSUME DOMAIN job = JobFields, NEW f, NEW then, Fetches(f, then)
    PROVE  Becomes("open", job.i, f, then, job.res, job.expect)
BY SMT DEF Becomes, Fetches, Steps, JobFields

LEMMA ReadsOn ==
    ASSUME DOMAIN job = JobFields, NEW then, Reads(then)
    PROVE  Becomes("text", job.i, job.file, then, job.res, job.expect)
BY SMT DEF Becomes, Reads, Steps, JobFields

LEMMA EndsOn ==
    ASSUME DOMAIN job = JobFields, NEW res, Ends(res)
    PROVE  Becomes(job.then, job.i, job.file, job.then, res, job.expect)
BY SMT DEF Becomes, Ends, Steps, JobFields

\* A checksum that is read is what the image must have.
LEMMA ChecksumIsExpected ==
    ASSUME DOMAIN job = JobFields, CheckChecksum
    PROVE  /\ At("checkChecksum")
           /\ \/ disk["checksum"] = "part" /\ Removes({"checksum"}) /\ Again("checksum")
              \/ disk["checksum"] = "bad" /\ Removes({"checksum"}) /\ Goes("checksum")
              \/ /\ disk["checksum"] \notin {"part", "bad"} /\ Same
                 /\ Becomes("image", 0, job.file, job.then, job.res, disk["checksum"])
<1>1. ASSUME Steps([job EXCEPT !.at = "image", !.i = 0, !.expect = disk["checksum"]])
      PROVE  Becomes("image", 0, job.file, job.then, job.res, disk["checksum"])
  BY <1>1, SMT DEF Becomes, Steps, JobFields
<1> QED  BY <1>1, Zenon DEF CheckChecksum

\* The signature is read after the configuration.
LEMMA SignatureIsRead ==
    ASSUME DOMAIN job = JobFields, NEW at, NEW then, Signature(at, then)
    PROVE  /\ At(at) /\ Same /\ NoHost
           /\ \/ Goes(then)
              \/ Becomes("text", job.i, job.file, then, job.res, job.res)
<1>1. ASSUME Steps([job EXCEPT !.at = "text", !.then = then, !.expect = job.res])
      PROVE  Becomes("text", job.i, job.file, then, job.res, job.res)
  BY <1>1, SMT DEF Becomes, Steps, JobFields
<1> QED  BY <1>1, Zenon DEF Signature

LEMMA BeginsOn ==
    ASSUME NEW call, NEW at, Begins(call, at)
    PROVE  /\ Idle /\ disk' = disk
           /\ DOMAIN job' = JobFields /\ returned' = [call |-> "none", answer |-> "none"]
           /\ job'.call = call /\ job'.at = at /\ job'.i = 0 /\ job'.file = "image"
           /\ job'.then = at /\ job'.res = "OK" /\ job'.expect = "good"
BY SMT DEF Begins, JobFields

(***************************************************************************)
(* The job keeps its shape.                                                *)
(***************************************************************************)
\* Only a thread that works takes a step.
LEMMA StepsWork ==
    ASSUME JobOK, DownloadSteps \/ InstallSteps
    PROVE  Working
BY DEF JobOK, At, DownloadSteps, InstallSteps, OpenStream, Transfer, TransferText, TransferAborted,
       Checksum, GotChecksum, CheckChecksum, Image, GotImage, CheckImage, Archive, GotArchive,
       CheckArchive, Extract, Extracted, HaveExtracted, Latest, GotLatest, ExtPack, PackSignature,
       PackConfig, GotPack, InstallPack, ExtPackEnds, Ready, Confirmed, Alert, Alerted, Sessions,
       License, Licensed, Config, ConfigSignature, GotConfig, Keys, Installer, GotInstaller,
       InstallerRuns, Detect, Signature

LEMMA DownloadStepsKeepJob ==
    ASSUME JobOK, DownloadSteps
    PROVE  JobOK'
<1>0. Retries \in Nat /\ Retries # 0  BY RetriesAssumption
<1>1. Working  BY StepsWork
<1> USE DEF Working, InItsProcedure, ForItsFile, Counts, Place, JobOK, Transfers, LatestAt,
       ChecksumAt, ImageAt,
              ArchiveAt, QuestionAt, PackAt, ConfigAt, InstallAt, InALoop, File, At, Idle, Becomes
<1>2. CASE OpenStream
  BY <1>0, <1>1, <1>2, GoesOn, EndsOn, SMT DEF OpenStream
<1>3. CASE Transfer
  BY <1>0, <1>1, <1>3, EndsOn, SMT DEF Transfer
<1>4. CASE TransferText
  BY <1>0, <1>1, <1>4, EndsOn, SMT DEF TransferText
<1>5. CASE TransferAborted
  BY <1>0, <1>1, <1>5, EndsOn, SMT DEF TransferAborted
<1>6. CASE Checksum
  BY <1>0, <1>1, <1>6, GoesOn, FetchesOn, SMT DEF Checksum, Returns
<1>7. CASE GotChecksum
  BY <1>0, <1>1, <1>7, GoesOn, AgainOn, SMT DEF GotChecksum
<1>8. CASE CheckChecksum
  BY <1>0, <1>1, <1>8, ChecksumIsExpected, GoesOn, AgainOn, SMT
<1>9. CASE Image
  BY <1>0, <1>1, <1>9, GoesOn, FetchesOn, SMT DEF Image, Returns
<1>10. CASE GotImage
  BY <1>0, <1>1, <1>10, GoesOn, AgainOn, SMT DEF GotImage
<1>11. CASE CheckImage
  BY <1>0, <1>1, <1>11, AgainOn, SMT DEF CheckImage, Returns
<1>12. CASE Archive
  BY <1>0, <1>1, <1>12, GoesOn, FetchesOn, SMT DEF Archive, Returns
<1>13. CASE GotArchive
  BY <1>0, <1>1, <1>13, GoesOn, AgainOn, SMT DEF GotArchive
<1>14. CASE CheckArchive
  BY <1>0, <1>1, <1>14, GoesOn, AgainOn, SMT DEF CheckArchive
<1>15. CASE Extract
  BY <1>0, <1>1, <1>15, GoesOn, AgainOn, SMT DEF Extract
<1>16. CASE Extracted
  BY <1>0, <1>1, <1>16, GoesOn, SMT DEF Extracted
<1>17. CASE HaveExtracted
  BY <1>0, <1>1, <1>17, AgainOn, SMT DEF HaveExtracted, Returns
<1>18. CASE Latest
  BY <1>0, <1>1, <1>18, ReadsOn, SMT DEF Latest, Returns
<1>19. CASE GotLatest
  BY <1>0, <1>1, <1>19, StartsOn, AgainOn, SMT DEF GotLatest, Returns
<1> QED  BY <1>2, <1>3, <1>4, <1>5, <1>6, <1>7, <1>8, <1>9, <1>10, <1>11, <1>12, <1>13, <1>14,
       <1>15, <1>16, <1>17, <1>18, <1>19 DEF DownloadSteps

LEMMA InstallStepsKeepJob ==
    ASSUME JobOK, InstallSteps
    PROVE  JobOK'
<1>0. Retries \in Nat /\ Retries # 0  BY RetriesAssumption
<1>1. Working  BY StepsWork
<1> USE DEF Working, InItsProcedure, ForItsFile, Counts, Place, JobOK, Transfers, LatestAt,
       ChecksumAt, ImageAt,
              ArchiveAt, QuestionAt, PackAt, ConfigAt, InstallAt, InALoop, File, At, Idle, Becomes
<1>2. CASE ExtPack
  BY <1>0, <1>1, <1>2, GoesOn, ReadsOn, SMT DEF ExtPack, ReadsConfig, Does
<1>3. CASE PackSignature
  BY <1>0, <1>1, <1>3, SignatureIsRead, GoesOn, SMT DEF PackSignature
<1>4. CASE PackConfig
  BY <1>0, <1>1, <1>4, GoesOn, FetchesOn, SMT DEF PackConfig, Does
<1>5. CASE GotPack
  BY <1>0, <1>1, <1>5, GoesOn, SMT DEF GotPack, Does
<1>6. CASE InstallPack
  BY <1>0, <1>1, <1>6, GoesOn, SMT DEF InstallPack, Does
<1>7. CASE ExtPackEnds
  BY <1>0, <1>1, <1>7, SMT DEF ExtPackEnds, Returns, Does
<1>8. CASE Ready
  BY <1>0, <1>1, <1>8, GoesOn, SMT DEF Ready, Asks
<1>9. CASE Confirmed
  BY <1>0, <1>1, <1>9, GoesOn, SMT DEF Confirmed
<1>10. CASE Alert
  BY <1>0, <1>1, <1>10, GoesOn, SMT DEF Alert, Asks
<1>11. CASE Alerted
  BY <1>0, <1>1, <1>11, SMT DEF Alerted, Returns
<1>12. CASE Sessions
  BY <1>0, <1>1, <1>12, GoesOn, SMT DEF Sessions, Does
<1>13. CASE License
  BY <1>0, <1>1, <1>13, GoesOn, SMT DEF License, Asks
<1>14. CASE Licensed
  BY <1>0, <1>1, <1>14, GoesOn, SMT DEF Licensed, Returns
<1>15. CASE Config
  BY <1>0, <1>1, <1>15, GoesOn, ReadsOn, SMT DEF Config, ReadsConfig, Does
<1>16. CASE ConfigSignature
  BY <1>0, <1>1, <1>16, SignatureIsRead, GoesOn, SMT DEF ConfigSignature
<1>17. CASE GotConfig
  BY <1>0, <1>1, <1>17, GoesOn, AgainOn, SMT DEF GotConfig, Returns, Does
<1>18. CASE Keys
  BY <1>0, <1>1, <1>18, StartsOn, SMT DEF Keys, Returns, Does
<1>19. CASE Installer
  BY <1>0, <1>1, <1>19, StartsOn, FetchesOn, SMT DEF Installer, Does
<1>20. CASE GotInstaller
  BY <1>0, <1>1, <1>20, StartsOn, AgainOn, SMT DEF GotInstaller, Does
<1>21. CASE InstallerRuns
  BY <1>0, <1>1, <1>21, GoesOn, AgainOn, SMT DEF InstallerRuns, Returns, Does
<1>22. CASE Detect
  BY <1>0, <1>1, <1>22, AgainOn, SMT DEF Detect, Returns, Does
<1> QED  BY <1>2, <1>3, <1>4, <1>5, <1>6, <1>7, <1>8, <1>9, <1>10, <1>11, <1>12, <1>13, <1>14,
       <1>15, <1>16, <1>17, <1>18, <1>19, <1>20, <1>21, <1>22 DEF InstallSteps

(***************************************************************************)
(* The cache.  Half an extraction has its archive beside it; an archive is *)
(* fetched only where nothing is extracted; what the image must be is what *)
(* the checksum file says, from when it is read until the image is handed  *)
(* out.                                                                    *)
(***************************************************************************)
Kept ==
    /\ disk \in [File -> Content]
    /\ disk["extracted"] \in {"none", "part", "good"}
    /\ disk["extracted"] = "part" => Exists("archive")

Held ==
    /\ Place = "gotArchive" => ~Exists("extracted")
    /\ job.at = "extracted" => disk["extracted"] = "good"
    /\ (job.at = "gotChecksum" /\ job.res = "OK") \/ job.at = "checkChecksum" => Exists("checksum")
    /\ Place \in ImageAt =>
         IF job.call = "downloadFile" THEN job.expect = "good"
         ELSE job.expect = disk["checksum"] /\ job.expect \in {"good", "wrong"}

Cache == Kept /\ (~Idle => Held)

LEMMA RemovesThem ==
    ASSUME disk \in [File -> Content], NEW fs, Removes(fs)
    PROVE  /\ disk' \in [File -> Content]
           /\ \A f \in File : disk'[f] = IF f \in fs THEN "none" ELSE disk[f]
BY SMT DEF Removes, Content

LEMMA DownloadStepsKeepCache ==
    ASSUME JobOK, Cache, DownloadSteps
    PROVE  Cache' /\ HandsOutGood'
<1>1. Working  BY StepsWork
<1> USE DEF Cache, Held, Kept, HandsOutGood, Place, Working, InItsProcedure, ForItsFile, Transfers,
       LatestAt, ChecksumAt,
              ImageAt, ArchiveAt, QuestionAt, PackAt, ConfigAt, InstallAt, File, Content, Exists,
                     At, Idle, Becomes
<1>2. CASE OpenStream
  BY <1>1, <1>2, GoesOn, EndsOn, SMT DEF OpenStream, Same
<1>3. CASE Transfer
  BY <1>1, <1>3, EndsOn, SMT DEF Transfer, Same
<1>4. CASE TransferText
  BY <1>1, <1>4, EndsOn, SMT DEF TransferText, Same
<1>5. CASE TransferAborted
  BY <1>1, <1>5, EndsOn, SMT DEF TransferAborted, Same
<1>6. CASE Checksum
  BY <1>1, <1>6, GoesOn, FetchesOn, RemovesThem, SMT DEF Checksum, Returns, Same
<1>7. CASE GotChecksum
  BY <1>1, <1>7, GoesOn, AgainOn, RemovesThem, SMT DEF GotChecksum, Same
<1>8. CASE CheckChecksum
  BY <1>1, <1>8, ChecksumIsExpected, GoesOn, AgainOn, RemovesThem, SMT DEF Same
<1>9. CASE Image
  BY <1>1, <1>9, GoesOn, FetchesOn, RemovesThem, SMT DEF Image, Returns, Same
<1>10. CASE GotImage
  BY <1>1, <1>10, GoesOn, AgainOn, RemovesThem, SMT DEF GotImage, Same
<1>11. CASE CheckImage
  BY <1>1, <1>11, AgainOn, RemovesThem, SMT DEF CheckImage, Returns, Same
<1>12. CASE Archive
  BY <1>1, <1>12, GoesOn, FetchesOn, RemovesThem, SMT DEF Archive, Returns, Same
<1>13. CASE GotArchive
  BY <1>1, <1>13, GoesOn, AgainOn, RemovesThem, SMT DEF GotArchive, Same
<1>14. CASE CheckArchive
  BY <1>1, <1>14, GoesOn, AgainOn, RemovesThem, SMT DEF CheckArchive, Same
<1>15. CASE Extract
  BY <1>1, <1>15, GoesOn, AgainOn, RemovesThem, SMT DEF Extract, Same
<1>16. CASE Extracted
  BY <1>1, <1>16, GoesOn, RemovesThem, SMT DEF Extracted, Same
<1>17. CASE HaveExtracted
  BY <1>1, <1>17, AgainOn, SMT DEF HaveExtracted, Returns, Same
<1>18. CASE Latest
  BY <1>1, <1>18, ReadsOn, SMT DEF Latest, Returns, Same
<1>19. CASE GotLatest
  BY <1>1, <1>19, StartsOn, AgainOn, SMT DEF GotLatest, Returns, Same
<1> QED  BY <1>2, <1>3, <1>4, <1>5, <1>6, <1>7, <1>8, <1>9, <1>10, <1>11, <1>12, <1>13, <1>14,
       <1>15, <1>16, <1>17, <1>18, <1>19 DEF DownloadSteps

LEMMA InstallStepsKeepCache ==
    ASSUME JobOK, Cache, InstallSteps
    PROVE  Cache' /\ HandsOutGood'
<1>1. Working  BY StepsWork
<1> USE DEF Cache, Held, Kept, HandsOutGood, Place, Working, InItsProcedure, ForItsFile, Transfers,
       LatestAt, ChecksumAt,
              ImageAt, ArchiveAt, QuestionAt, PackAt, ConfigAt, InstallAt, File, Content, Exists,
                     At, Idle, Becomes
<1>2. CASE ExtPack
  BY <1>1, <1>2, GoesOn, ReadsOn, SMT DEF ExtPack, ReadsConfig, Does, Same
<1>3. CASE PackSignature
  BY <1>1, <1>3, SignatureIsRead, GoesOn, SMT DEF PackSignature, Same
<1>4. CASE PackConfig
  BY <1>1, <1>4, GoesOn, FetchesOn, SMT DEF PackConfig, Does, Same
<1>5. CASE GotPack
  BY <1>1, <1>5, GoesOn, SMT DEF GotPack, Does, Same
<1>6. CASE InstallPack
  BY <1>1, <1>6, GoesOn, RemovesThem, SMT DEF InstallPack, Does, Same
<1>7. CASE ExtPackEnds
  BY <1>1, <1>7, SMT DEF ExtPackEnds, Returns, Does, Same
<1>8. CASE Ready
  BY <1>1, <1>8, GoesOn, SMT DEF Ready, Asks, Same
<1>9. CASE Confirmed
  BY <1>1, <1>9, GoesOn, SMT DEF Confirmed, Same
<1>10. CASE Alert
  BY <1>1, <1>10, GoesOn, SMT DEF Alert, Asks, Same
<1>11. CASE Alerted
  BY <1>1, <1>11, SMT DEF Alerted, Returns, Same
<1>12. CASE Sessions
  BY <1>1, <1>12, GoesOn, SMT DEF Sessions, Does, Same
<1>13. CASE License
  BY <1>1, <1>13, GoesOn, SMT DEF License, Asks, Same
<1>14. CASE Licensed
  BY <1>1, <1>14, GoesOn, SMT DEF Licensed, Returns, Same
<1>15. CASE Config
  BY <1>1, <1>15, GoesOn, ReadsOn, SMT DEF Config, ReadsConfig, Does, Same
<1>16. CASE ConfigSignature
  BY <1>1, <1>16, SignatureIsRead, GoesOn, SMT DEF ConfigSignature, Same
<1>17. CASE GotConfig
  BY <1>1, <1>17, GoesOn, AgainOn, SMT DEF GotConfig, Returns, Does, Same
<1>18. CASE Keys
  BY <1>1, <1>18, StartsOn, SMT DEF Keys, Returns, Does, Same
<1>19. CASE Installer
  BY <1>1, <1>19, StartsOn, FetchesOn, RemovesThem, SMT DEF Installer, Does, Same
<1>20. CASE GotInstaller
  BY <1>1, <1>20, StartsOn, AgainOn, SMT DEF GotInstaller, Does, Same
<1>21. CASE InstallerRuns
  BY <1>1, <1>21, GoesOn, AgainOn, SMT DEF InstallerRuns, Returns, Does, Same
<1>22. CASE Detect
  BY <1>1, <1>22, AgainOn, RemovesThem, SMT DEF Detect, Returns, Does, Same
<1> QED  BY <1>2, <1>3, <1>4, <1>5, <1>6, <1>7, <1>8, <1>9, <1>10, <1>11, <1>12, <1>13, <1>14,
       <1>15, <1>16, <1>17, <1>18, <1>19, <1>20, <1>21, <1>22 DEF InstallSteps

(***************************************************************************)
(* What the thread has made sure of where it is: the keys of the signed    *)
(* configuration before the installer, the license before the extension    *)
(* pack, and the bytes of the pack before it is installed.  An answer that *)
(* is waited for is what the user said.                                    *)
(***************************************************************************)
Checked ==
    ~Idle =>
      /\ Place \in InstallAt \cup {"gotPack", "installPack"} => data = "full"
      /\ Place \in PackAt => licensed
      /\ job.at = "installPack" => disk["pack"] = "good"

Answering == asking.at = "waiting" /\ result = OK => meant = OK

LEMMA DownloadStepsKeepChecked ==
    ASSUME JobOK, Checked, DownloadSteps, NoUI, NoHost
    PROVE  Checked'
<1>1. Working  BY StepsWork
<1> USE DEF Checked, Answering, Place, Working, InItsProcedure, ForItsFile, Transfers, LatestAt,
       ChecksumAt,
              ImageAt, ArchiveAt, QuestionAt, PackAt, ConfigAt, InstallAt, File, Content, Exists,
                     At, Idle, Becomes, NoUI, NoHost, uiVars, hostVars
<1>2. CASE OpenStream
  BY <1>1, <1>2, GoesOn, EndsOn, SMT DEF OpenStream
<1>3. CASE Transfer
  BY <1>1, <1>3, EndsOn, SMT DEF Transfer
<1>4. CASE TransferText
  BY <1>1, <1>4, EndsOn, SMT DEF TransferText
<1>5. CASE TransferAborted
  BY <1>1, <1>5, EndsOn, SMT DEF TransferAborted
<1>6. CASE Checksum
  BY <1>1, <1>6, GoesOn, FetchesOn, SMT DEF Checksum, Returns
<1>7. CASE GotChecksum
  BY <1>1, <1>7, GoesOn, AgainOn, SMT DEF GotChecksum
<1>8. CASE CheckChecksum
  BY <1>1, <1>8, ChecksumIsExpected, GoesOn, AgainOn, SMT
<1>9. CASE Image
  BY <1>1, <1>9, GoesOn, FetchesOn, SMT DEF Image, Returns
<1>10. CASE GotImage
  BY <1>1, <1>10, GoesOn, AgainOn, SMT DEF GotImage
<1>11. CASE CheckImage
  BY <1>1, <1>11, AgainOn, SMT DEF CheckImage, Returns
<1>12. CASE Archive
  BY <1>1, <1>12, GoesOn, FetchesOn, SMT DEF Archive, Returns
<1>13. CASE GotArchive
  BY <1>1, <1>13, GoesOn, AgainOn, SMT DEF GotArchive
<1>14. CASE CheckArchive
  BY <1>1, <1>14, GoesOn, AgainOn, SMT DEF CheckArchive
<1>15. CASE Extract
  BY <1>1, <1>15, GoesOn, AgainOn, SMT DEF Extract
<1>16. CASE Extracted
  BY <1>1, <1>16, GoesOn, SMT DEF Extracted
<1>17. CASE HaveExtracted
  BY <1>1, <1>17, AgainOn, SMT DEF HaveExtracted, Returns
<1>18. CASE Latest
  BY <1>1, <1>18, ReadsOn, SMT DEF Latest, Returns
<1>19. CASE GotLatest
  BY <1>1, <1>19, StartsOn, AgainOn, SMT DEF GotLatest, Returns
<1> QED  BY <1>2, <1>3, <1>4, <1>5, <1>6, <1>7, <1>8, <1>9, <1>10, <1>11, <1>12, <1>13, <1>14,
       <1>15, <1>16, <1>17, <1>18, <1>19 DEF DownloadSteps

LEMMA InstallStepsKeepChecked ==
    ASSUME JobOK, Checked, Answering, InstallSteps
    PROVE  Checked'
<1>1. Working  BY StepsWork
<1> USE DEF Checked, Answering, Place, Working, InItsProcedure, ForItsFile, Transfers, LatestAt,
       ChecksumAt,
              ImageAt, ArchiveAt, QuestionAt, PackAt, ConfigAt, InstallAt, File, Content, Exists,
                     At, Idle, Becomes, NoUI, NoHost, uiVars, hostVars
<1>2. CASE ExtPack
  BY <1>1, <1>2, GoesOn, ReadsOn, SMT DEF ExtPack, ReadsConfig, Does, Same
<1>3. CASE PackSignature
  BY <1>1, <1>3, SignatureIsRead, GoesOn, SMT DEF PackSignature
<1>4. CASE PackConfig
  <2>1. ~Idle /\ job.at = "packConfig" /\ licensed' = licensed /\ disk' = disk
    BY <1>4, Zenon DEF PackConfig, Same
  <2>2. CASE Goes("extPackEnds")
    BY <1>1, <2>1, <2>2, GoesOn, SMT
  <2>3. CASE data' = "full" /\ Fetches("pack", "gotPack")
    BY <1>1, <2>1, <2>3, FetchesOn, SMT
  <2> QED  BY <1>4, <2>2, <2>3, Zenon DEF PackConfig
<1>5. CASE GotPack
  BY <1>1, <1>5, GoesOn, SMT DEF GotPack, Does, Same
<1>6. CASE InstallPack
  BY <1>1, <1>6, GoesOn, SMT DEF InstallPack, Does, Same
<1>7. CASE ExtPackEnds
  BY <1>1, <1>7, SMT DEF ExtPackEnds, Returns, Does, Same
<1>8. CASE Ready
  BY <1>1, <1>8, GoesOn, SMT DEF Ready, Asks, Same, Ask
<1>9. CASE Confirmed
  BY <1>1, <1>9, GoesOn, SMT DEF Confirmed, Same, Answered, EndQuestion
<1>10. CASE Alert
  BY <1>1, <1>10, GoesOn, SMT DEF Alert, Asks, Same, Ask
<1>11. CASE Alerted
  BY <1>1, <1>11, SMT DEF Alerted, Returns, Same, Answered, EndQuestion
<1>12. CASE Sessions
  BY <1>1, <1>12, GoesOn, SMT DEF Sessions, Does, Same
<1>13. CASE License
  BY <1>1, <1>13, GoesOn, SMT DEF License, Asks, Same, Ask
<1>14. CASE Licensed
  <2>1. CASE result = OK
    <3>1. licensed' = TRUE /\ data' = data /\ disk' = disk
      BY <1>14, <2>1, Zenon DEF Licensed, Answered, Same, Answering
    <3> QED  BY <1>1, <1>14, <2>1, <3>1, GoesOn, SMT DEF Licensed
  <2>2. CASE result # OK
    BY <1>14, <2>2, SMT DEF Licensed, Returns
  <2> QED  BY <2>1, <2>2
<1>15. CASE Config
  BY <1>1, <1>15, GoesOn, ReadsOn, SMT DEF Config, ReadsConfig, Does, Same
<1>16. CASE ConfigSignature
  BY <1>1, <1>16, SignatureIsRead, GoesOn, SMT DEF ConfigSignature
<1>17. CASE GotConfig
  BY <1>1, <1>17, GoesOn, AgainOn, SMT DEF GotConfig, Returns, Does, Same
<1>18. CASE Keys
  BY <1>1, <1>18, StartsOn, SMT DEF Keys, Returns, Does, Same
<1>19. CASE Installer
  BY <1>1, <1>19, StartsOn, FetchesOn, SMT DEF Installer, Does, Same
<1>20. CASE GotInstaller
  BY <1>1, <1>20, StartsOn, AgainOn, SMT DEF GotInstaller, Does, Same
<1>21. CASE InstallerRuns
  BY <1>1, <1>21, GoesOn, AgainOn, SMT DEF InstallerRuns, Returns, Does, Same
<1>22. CASE Detect
  BY <1>1, <1>22, AgainOn, SMT DEF Detect, Returns, Does, Same
<1> QED  BY <1>2, <1>3, <1>4, <1>5, <1>6, <1>7, <1>8, <1>9, <1>10, <1>11, <1>12, <1>13, <1>14,
       <1>15, <1>16, <1>17, <1>18, <1>19, <1>20, <1>21, <1>22 DEF InstallSteps

(***************************************************************************)
(* The calls, and what else happens in the process.                        *)
(***************************************************************************)
CacheInv == JobOK /\ Cache /\ HandsOutGood

LEMMA CallsKeepCache ==
    ASSUME CacheInv, NEW call, NEW at, Begins(call, at),
           <<call, at>> \in {<<"cernVMDownload", "latest">>, <<"downloadFileURL", "checksum">>,
                             <<"downloadFile", "image">>, <<"downloadFileGZ", "archive">>,
                             <<"waitTillReady", "ready">>, <<"vboxInstall", "config">>}
    PROVE  CacheInv'
<1>0. Retries \in Nat /\ Retries # 0  BY RetriesAssumption
<1>1. /\ \/ call = "cernVMDownload" /\ at = "latest"
         \/ call = "downloadFileURL" /\ at = "checksum"
         \/ call = "downloadFile" /\ at = "image"
         \/ call = "downloadFileGZ" /\ at = "archive"
         \/ call = "waitTillReady" /\ at = "ready"
         \/ call = "vboxInstall" /\ at = "config"
      /\ at \notin Transfers \cup InALoop
  BY SMT DEF Transfers, InALoop
<1>2. JobOK'
  BY <1>0, <1>1, BeginsOn, SMT
     DEF JobOK, Working, InItsProcedure, ForItsFile, Counts, Place, File, LatestAt, ChecksumAt,
         ImageAt, ArchiveAt, QuestionAt, PackAt, ConfigAt, InstallAt
<1>3. Cache' /\ HandsOutGood'
  BY <1>1, BeginsOn, SMT DEF CacheInv, Cache, Kept, Held, HandsOutGood, Place, Exists, ImageAt
<1> QED  BY <1>1, <1>2, <1>3, BeginsOn, SMT DEF CacheInv

LEMMA CacheStays ==
    ASSUME CacheInv, UNCHANGED <<job, disk, returned>>
    PROVE  CacheInv'
BY SMT DEF CacheInv, JobOK, Working, InItsProcedure, ForItsFile, Counts, Place, Cache, Kept, Held,
           HandsOutGood, Idle, Exists

LEMMA CacheInit == Init => CacheInv
BY SMT DEF Init, DownloadsInit, CacheInv, JobOK, Cache, Kept, HandsOutGood, Idle, NoJob, File,
       Content

LEMMA CacheNext ==
    ASSUME CacheInv, [Next]_vars
    PROVE  CacheInv'
<1>1. CASE DownloadCalls
  BY <1>1, CallsKeepCache, Zenon DEF DownloadCalls
<1>2. CASE DownloadSteps
  BY <1>2, DownloadStepsKeepJob, DownloadStepsKeepCache, Zenon DEF CacheInv
<1>3. CASE AbortTransfer \/ AbortAllTransfers
  BY <1>3, CacheStays, Zenon DEF AbortTransfer, AbortAllTransfers
<1>4. CASE InstallCalls
  BY <1>4, CallsKeepCache, Zenon DEF InstallCalls
<1>5. CASE InstallSteps
  BY <1>5, InstallStepsKeepJob, InstallStepsKeepCache, Zenon DEF CacheInv
<1>6. CASE Dies
  BY <1>6, SMT DEF Dies, DownloadsDie, CacheInv, JobOK, Cache, Kept, HandsOutGood, Idle, Exists
<1>7. CASE UNCHANGED dlVars
  BY <1>7, CacheStays, Zenon DEF dlVars
<1> QED
  BY <1>1, <1>2, <1>3, <1>4, <1>5, <1>6, <1>7, Zenon DEF Next, vars

\* A download that answers HVE_OK hands out what it promised, for any number of tries,
\* failures, calls and crashes: what the image must be is what the checksum file held
\* when it was read, no step of the same call writes that file after that, and half an
\* extraction still has its archive beside it when the next call looks.
THEOREM DownloadsAreGood == Spec => []HandsOutGood
<1>1. Spec => []CacheInv
  <2>1. CacheInv /\ [Next]_vars => CacheInv'  BY CacheNext
  <2> QED  BY CacheInit, <2>1, PTL DEF Spec
<1>2. CacheInv => HandsOutGood  BY DEF CacheInv
<1> QED  BY <1>1, <1>2, PTL

(***************************************************************************)
(* What the steps do to the question that is asked.                        *)
(***************************************************************************)
LEMMA StepsAsk ==
    ASSUME InstallSteps
    PROVE  /\ stops' = stops /\ stream' = stream
           /\ \/ NoUI \/ Ask("confirm") \/ Ask("alert") \/ Ask("license")
              \/ EndQuestion
BY Zenon DEF InstallSteps, ExtPack, PackSignature, PackConfig, GotPack, InstallPack, ExtPackEnds,
   Ready, Confirmed, Alert, Alerted, Sessions, License, Licensed, Config, ConfigSignature,
          GotConfig,
   Keys, Installer, GotInstaller, InstallerRuns, Detect, Signature, Does, Asks, NoChange

LEMMA StepsKeepAnswering ==
    ASSUME Answering, InstallSteps
    PROVE  Answering'
BY StepsAsk, SMT DEF Answering, NoUI, uiVars, Ask, EndQuestion, Pending, OK, NotAsking

(***************************************************************************)
(* What is given to the installers.                                        *)
(***************************************************************************)
RunsInv == CacheInv /\ Checked /\ Answering /\ RunsWhatItMay

LEMMA StepsRunWhatTheyMay ==
    ASSUME JobOK, Checked, RunsWhatItMay, InstallSteps
    PROVE  RunsWhatItMay'
<1>1. CASE InstallPack
  <2>1. Place = job.at /\ job.at = "installPack" /\ ~Idle
    BY <1>1, SMT DEF InstallPack, At, Place, Transfers
  <2>2. data = "full" /\ disk["pack"] = "good" /\ licensed
    BY <2>1, SMT DEF Checked, PackAt
  <2> QED  BY <1>1, <2>2, SMT DEF InstallPack, RunsWhatItMay
<1>2. CASE InstallerRuns
  <2>1. Place = job.at /\ job.at = "install" /\ ~Idle
    BY <1>2, SMT DEF InstallerRuns, At, Place, Transfers
  <2>2. data = "full"
    BY <2>1, SMT DEF Checked, InstallAt
  <2> QED  BY <1>2, <2>2, SMT DEF InstallerRuns, RunsWhatItMay, NoHost, hostVars
<1>3. CASE ~InstallPack /\ ~InstallerRuns
  <2>1. ran' = ran
    BY <1>3, Zenon DEF InstallSteps, ExtPack, PackSignature, PackConfig, GotPack, ExtPackEnds,
       Ready, Confirmed, Alert, Alerted, Sessions, License, Licensed, Config, ConfigSignature,
       GotConfig, Keys, Installer, GotInstaller, Detect, Signature, NoHost, hostVars
  <2> QED  BY <2>1, Zenon DEF RunsWhatItMay
<1> QED  BY <1>1, <1>2, <1>3

LEMMA RunsInit == Init => RunsInv
BY CacheInit, SMT DEF Init, DownloadsInit, UIInit, RunsInv, Checked, Answering, RunsWhatItMay,
       Idle, NoJob, NotAsking

LEMMA RunsNext ==
    ASSUME "lateAnswer" \notin UIQuirks, RunsInv, [Next]_vars
    PROVE  RunsInv'
<1>1. CacheInv'  BY CacheNext DEF RunsInv
<1> SUFFICES (Checked /\ Answering /\ RunsWhatItMay)'  BY <1>1 DEF RunsInv
<1> JobOK /\ Checked /\ Answering /\ RunsWhatItMay  BY DEF RunsInv, CacheInv
<1>2. CASE UNCHANGED <<job, disk>> /\ NoHost
  <2>1. Checked' /\ RunsWhatItMay'
    BY <1>2, SMT DEF Checked, RunsWhatItMay, Place, Idle, NoHost, hostVars
  <2>2. Answering' 
    <3>1. CASE NoUI
      BY <3>1, SMT DEF Answering, NoUI, uiVars
    <3>2. CASE WaitResult
      BY <3>2, SMT DEF WaitResult, Answering, Pending, OK
    <3>3. CASE UserActs
      BY <3>3, SMT DEF UserActs, Answer, SameQuestion, Answering
    <3>4. CASE AppAborts \/ AppHandles
      BY <3>4, SMT DEF AppAborts, AppHandles, Abort, AbortCancels, AbortFlag, AbortReturns,
             AbortHandled,
                       Answering, OK, CANCEL
    <3>5. CASE InstallSteps
      BY <3>5, StepsKeepAnswering
    <3>6. CASE Dies
      BY <3>6, SMT DEF Dies, Answering, NotAsking
    <3> QED
      BY <3>1, <3>2, <3>3, <3>4, <3>5, <3>6, Zenon DEF Next, InstallCalls, vars, NoUI
  <2> QED  BY <2>1, <2>2
<1>3. CASE NoUI /\ NoHost /\ DownloadSteps
  <2>1. Checked'  BY <1>3, DownloadStepsKeepChecked
  <2> QED  BY <1>3, <2>1, SMT DEF Answering, RunsWhatItMay, NoUI, NoHost, uiVars, hostVars
<1>4. CASE NoUI /\ DownloadCalls /\ NoHost
  <2>1. PICK call, at : Begins(call, at) /\ at \in {"latest", "checksum", "image", "archive"}
    BY <1>4, Zenon DEF DownloadCalls
  <2>2. Checked'
    BY <2>1, BeginsOn, SMT DEF Checked, Place, Transfers, InstallAt, PackAt
  <2> QED  BY <1>4, <2>2, SMT DEF Answering, RunsWhatItMay, NoUI, NoHost, uiVars, hostVars
<1>5. CASE InstallCalls
  <2>1. PICK call, at : Begins(call, at) /\ at \in {"ready", "config"}
    BY <1>5, Zenon DEF InstallCalls
  <2>2. Checked'
    BY <2>1, BeginsOn, SMT DEF Checked, Place, Transfers, InstallAt, PackAt
  <2> QED  BY <1>5, <2>2, SMT DEF InstallCalls, Answering, RunsWhatItMay, uiVars
<1>6. CASE InstallSteps
  BY <1>6, InstallStepsKeepChecked, StepsKeepAnswering, StepsRunWhatTheyMay
<1>7. CASE Dies
  BY <1>7, SMT DEF Dies, DownloadsDie, Checked, Answering, RunsWhatItMay, Idle, NotAsking
<1> QED
  BY <1>2, <1>3, <1>4, <1>5, <1>6, <1>7, Zenon
     DEF Next, vars, dlVars, AbortTransfer, AbortAllTransfers, NoUI, NoHost, uiVars, hostVars

\* Where no dialog outlives its question: nothing is given to an installer before the
\* signed configuration was read, and no extension pack is installed before its bytes
\* were checked and its license accepted, for any number of tries, questions and aborts.
\* What the user answered is what the thread that waits reads, as only the question that
\* is pending can be answered and an abort answers UI_CANCEL.
THEOREM InstallersAreGivenWhatTheyMay ==
    ASSUME "lateAnswer" \notin UIQuirks
    PROVE  Spec => []RunsWhatItMay
<1>1. Spec => []RunsInv
  <2>1. RunsInv /\ [Next]_vars => RunsInv'  BY RunsNext
  <2> QED  BY RunsInit, <2>1, PTL DEF Spec
<1>2. RunsInv => RunsWhatItMay  BY DEF RunsInv
<1> QED  BY <1>1, <1>2, PTL

(***************************************************************************)
(* What abort(true) waits for.                                             *)
(***************************************************************************)
Acked == stops \in Nat /\ (aborter = "waits" /\ abortHandledFlag => acknowledged)

LEMMA AckedInit == Init => Acked
BY SMT DEF Init, DownloadsInit, UIInit, Acked

\* Only these steps touch what abort() works with.
LEMMA AbortSteps ==
    ASSUME [Next]_vars
    PROVE  \/ UNCHANGED <<aborter, abortHandledFlag, acknowledged>>
              /\ (stops' = stops \/ stops' = stops + 1)
           \/ AppAborts /\ stops' = stops
           \/ AppHandles /\ stops' = stops
           \/ Dies
<1>1. CASE InstallSteps
  BY <1>1, StepsAsk, Zenon DEF NoUI, uiVars, Ask, EndQuestion
<1>2. CASE UserActs /\ UNCHANGED dlVars
  BY <1>2, Zenon DEF UserActs, Answer, dlVars
<1>3. CASE WaitResult /\ UNCHANGED dlVars
  BY <1>3, Zenon DEF WaitResult, dlVars
<1>4. CASE InstallCalls
  BY <1>4, Zenon DEF InstallCalls, Begins, uiVars
<1>5. CASE DownloadSteps /\ NoUI
  <2>1. stops' = stops
    BY <1>5, Zenon DEF DownloadSteps, OpenStream, Transfer, TransferText, TransferAborted, Checksum,
       GotChecksum, CheckChecksum, Image, GotImage, CheckImage, Archive, GotArchive, CheckArchive,
       Extract, Extracted, HaveExtracted, Latest, GotLatest, NoChange
  <2> QED  BY <1>5, <2>1, Zenon DEF NoUI, uiVars
<1>6. CASE (DownloadCalls \/ AbortTransfer \/ AbortAllTransfers) /\ NoUI
  BY <1>6, Zenon DEF DownloadCalls, Begins, AbortTransfer, AbortAllTransfers, NoUI, uiVars
<1>7. CASE UNCHANGED vars
  BY <1>7, Zenon DEF vars, dlVars, uiVars
<1>8. CASE (AppAborts \/ AppHandles) /\ UNCHANGED dlVars
  BY <1>8, Zenon DEF dlVars
<1> QED
  BY <1>1, <1>2, <1>3, <1>4, <1>5, <1>6, <1>7, <1>8, Zenon DEF Next

LEMMA AckedNext ==
    ASSUME Acked, [Next]_vars
    PROVE  Acked' /\ (aborter = "waits" /\ aborter' = "no" /\ stops' = stops => acknowledged)
<1>1. CASE UNCHANGED <<aborter, abortHandledFlag,
       acknowledged>> /\ (stops' = stops \/ stops' = stops + 1)
  BY <1>1, SMT DEF Acked
<1>2. CASE AppAborts /\ stops' = stops
  <2>1. CASE AbortFlag
    <3>1. aborter = "resets" => abortHandledFlag' = FALSE
      <4>1. "resets" # "marks"  OBVIOUS
      <4> QED  BY <2>1, <4>1, Zenon DEF AbortFlag
    <3> QED  BY <1>2, <2>1, <3>1, SMT DEF AbortFlag, Acked
  <2>2. CASE \E wait \in BOOLEAN : Abort(wait)
    BY <1>2, <2>2, SMT DEF Abort, Acked
  <2>3. CASE AbortCancels \/ AbortReturns
    BY <1>2, <2>3, SMT DEF AbortCancels, AbortReturns, Acked
  <2> QED  BY <1>2, <2>1, <2>2, <2>3, Zenon DEF AppAborts
<1>3. CASE AppHandles /\ stops' = stops
  BY <1>3, SMT DEF AppHandles, AbortHandled, Acked
<1>4. CASE Dies
  BY <1>4, SMT DEF Dies, DownloadsDie, Acked
<1> QED  BY <1>1, <1>2, <1>3, <1>4, AbortSteps

\* abort(true) returns only once the application has acknowledged this abort, whatever
\* an earlier one has left and even where the acknowledgement comes before the flag is
\* reset, for any number of aborts and questions.
THEOREM AbortIsAcknowledged == Spec => AbortWaits
<1>1. Acked /\ [Next]_vars => Acked'  BY AckedNext
<1>2. Acked /\ [Next]_vars => [aborter = "waits" /\ aborter' = "no" /\ stops' = stops => acknowledged]_vars
  BY AckedNext
<1> QED  BY AckedInit, <1>1, <1>2, PTL DEF Spec, AbortWaits

(***************************************************************************)
(* Type correctness.                                                       *)
(***************************************************************************)
Typed ==
    /\ stream \in BOOLEAN /\ result \in Pending .. CANCEL
    /\ dialogs \subseteq {"confirm", "alert", "license"}
    /\ data \in {"none", "lacking", "full"}

LEMMA TypedNext ==
    ASSUME Typed, [Next]_vars
    PROVE  Typed'
<1>1. stream' \in BOOLEAN
  <2>1. CASE InstallSteps  BY <2>1, StepsAsk, Zenon DEF Typed
  <2>2. CASE DownloadSteps
    BY <2>2, Zenon DEF Typed, DownloadSteps, OpenStream, Transfer, TransferText, TransferAborted,
           Checksum,
       GotChecksum, CheckChecksum, Image, GotImage, CheckImage, Archive, GotArchive, CheckArchive,
       Extract, Extracted, HaveExtracted, Latest, GotLatest, NoChange
  <2>3. CASE Dies  BY <2>3, Zenon DEF Dies, DownloadsDie
  <2>4. CASE stream' = stream  BY <2>4, Zenon DEF Typed
  <2> QED
    BY <2>1, <2>2, <2>3, <2>4, Zenon DEF Next, DownloadCalls, InstallCalls, Begins, AbortTransfer,
       AbortAllTransfers, vars, dlVars
<1>2. result' \in Pending .. CANCEL
  <2>1. CASE result' = result  BY <2>1, SMT DEF Typed
  <2>2. CASE result' \in {Pending, UNDEFINED, OK, CANCEL}
    BY <2>2, SMT DEF Pending, UNDEFINED, OK, CANCEL
  <2>3. CASE UserActs
    BY <2>3, SMT DEF UserActs, Answer, Given, Pending, UNDEFINED, OK, CANCEL
  <2> QED
    BY <2>1, <2>2, <2>3, StepsAsk, Zenon DEF Next, InstallCalls, NoUI, uiVars, vars, Ask,
           EndQuestion, Dies,
       WaitResult, AppAborts, AppHandles, Abort, AbortCancels, AbortFlag, AbortReturns, AbortHandled
<1>3. dialogs' \subseteq {"confirm", "alert", "license"}
  <2> dialogs \subseteq {"confirm", "alert", "license"}  BY DEF Typed
  <2>1. CASE \E kind \in {"confirm", "alert", "license"} : dialogs' = dialogs \cup {kind}
    BY <2>1, SMT
  <2>2. CASE dialogs' \subseteq dialogs
    BY <2>2, SMT
  <2>3. CASE UserActs  BY <2>3, SMT DEF UserActs, Answer
  <2>4. CASE EndQuestion
    <3>1. dialogs' = dialogs \/ dialogs' = dialogs \ {asking.kind}
      BY <2>4, Zenon DEF EndQuestion
    <3>2. dialogs' \subseteq dialogs  BY <3>1, Zenon
    <3> QED  BY <3>2, <2>2
  <2>5. CASE Dies  BY <2>5, SMT DEF Dies
  <2>6. CASE dialogs' = dialogs  BY <2>6
  <2> QED
    BY <2>1, <2>2, <2>3, <2>4, <2>5, <2>6, StepsAsk, Zenon DEF Next, InstallCalls, NoUI, uiVars,
           vars, Ask,
       WaitResult, AppAborts, AppHandles, Abort, AbortCancels, AbortFlag, AbortReturns, AbortHandled
<1>4. data' \in {"none", "lacking", "full"}
  <2>1. CASE PackConfig \/ GotConfig
    BY <2>1, Zenon DEF PackConfig, GotConfig, Typed, NoHost, hostVars
  <2>2. CASE InstallSteps /\ ~PackConfig /\ ~GotConfig
    BY <2>2, Zenon DEF Typed, InstallSteps, ExtPack, PackSignature, GotPack, InstallPack,
           ExtPackEnds,
       Ready, Confirmed, Alert, Alerted, Sessions, License, Licensed, Config, ConfigSignature,
       Keys, Installer, GotInstaller, InstallerRuns, Detect, Signature, NoHost, hostVars
  <2> QED  BY <2>1, <2>2, Zenon DEF Typed, Next, InstallCalls, Dies, NoHost, hostVars, vars
<1> QED  BY <1>1, <1>2, <1>3, <1>4 DEF Typed

\* What the variables hold; in particular no loop counts past the tries it is allowed,
\* though loops jump back, fall through and start each other.
THEOREM TypeCorrect == Spec => []TypeOK
<1>1. Init => Typed
  <2>1. 0 \in -1 .. 2  OBVIOUS
  <2> QED  BY <2>1, Zenon DEF Init, DownloadsInit, UIInit, Typed, UNDEFINED, Pending, CANCEL
<1>2. Typed /\ CacheInv /\ [Next]_vars => Typed' /\ CacheInv'
  BY TypedNext, CacheNext
<1>3. Typed /\ CacheInv => TypeOK
  BY SMT DEF Typed, CacheInv, JobOK, Working, InItsProcedure, Counts, Cache, Kept, TypeOK, Idle,
         NoJob
<1> QED  BY CacheInit, <1>1, <1>2, <1>3, PTL DEF Spec
=============================================================================
