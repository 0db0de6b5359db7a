------------------------------- MODULE Install -------------------------------
(***************************************************************************)
(* What makes the hypervisor ready: vboxInstall, VBoxInstance's            *)
(* waitTillReady and installExtPack on a Linux host, with the downloads    *)
(* they make and the questions they ask the user.                          *)
(***************************************************************************)
EXTENDS Downloads, UserInteraction

VARIABLES hypervisor,      \* detectHypervisor finds it
          driver,          \* vboxDrvKernelLoaded
          sessionLoaded, extPack,
          data,            \* the keys of the signed configuration: none, some are missing, all
          ran,             \* ghost: what was given to the installers
          licensed         \* ghost: the last license shown was accepted

hostVars == <<hypervisor, driver, sessionLoaded, extPack, data, ran, licensed>>
vars == <<dlVars, uiVars, hostVars>>

Init ==
    /\ DownloadsInit /\ UIInit
    /\ hypervisor \in BOOLEAN /\ driver \in BOOLEAN /\ extPack \in BOOLEAN
    /\ (extPack \/ driver => hypervisor)
    /\ sessionLoaded = FALSE /\ data = "none" /\ ran = {} /\ licensed = FALSE

NoUI   == UNCHANGED uiVars
NoHost == UNCHANGED hostVars
Does(step) == step /\ NoChange /\ NoUI

(***************************************************************************)
(* DomainKeystore::downloadHypervisorConfig: the configuration, then its   *)
(* signature, both in memory.                                              *)
(***************************************************************************)
ReadsConfig(then) == Reads(then)

\* What the caller gets once both were read; text that was damaged has no valid
\* signature.
ConfigAnswer(res) == IF res = "BAD" THEN "NOT_VALIDATED" ELSE res

\* The signature is read only after the configuration was; job.expect keeps what came
\* of the first.
Signature(at, then) ==
    /\ At(at) /\ NoFault /\ Same /\ Does(TRUE) /\ NoHost
    /\ IF job.res = "IO_ERROR" THEN Goes(then)
       ELSE Steps([job EXCEPT !.at = "text", !.then = then, !.expect = job.res])

\* Whether either was damaged.
ConfigRes == IF job.res = "OK" /\ job.expect = "BAD" THEN "BAD" ELSE job.res

(***************************************************************************)
(* installExtPack: one try.                                                *)
(***************************************************************************)
ExtPack ==
    /\ At("extPack") /\ NoFault /\ Same /\ Does(TRUE) /\ NoHost
    /\ IF extPack THEN Goes("extPackEnds") ELSE ReadsConfig("packSignature")

PackSignature == Signature("packSignature", "packConfig")

PackConfig ==
    /\ At("packConfig") /\ NoFault /\ Same /\ Does(TRUE)
    /\ IF ConfigAnswer(ConfigRes) # "OK" THEN Goes("extPackEnds") /\ NoHost
       ELSE \E d \in {"lacking", "full"} :
              /\ data' = d
              /\ IF d = "full" THEN Fetches("pack", "gotPack") ELSE Goes("extPackEnds")
              /\ UNCHANGED <<hypervisor, driver, sessionLoaded, extPack, ran, licensed>>

GotPack ==
    /\ At("gotPack") /\ NoFault /\ Same /\ Does(TRUE) /\ NoHost
    /\ Goes(IF job.res = "OK" /\ disk["pack"] = "good" THEN "installPack" ELSE "extPackEnds")

InstallPack ==
    /\ At("installPack") /\ Does(TRUE)
    /\ ran' = ran \cup {[file |-> "pack", content |-> disk["pack"], data |-> data, licensed |-> licensed]}
    /\ \/ NoFault /\ extPack' = TRUE /\ Removes({"pack"})
       \/ OneFault /\ UNCHANGED extPack /\ Same
    /\ Goes("extPackEnds")
    /\ UNCHANGED <<hypervisor, driver, sessionLoaded, data, licensed>>

\* waitTillReady does not look at the result.
ExtPackEnds ==
    /\ At("extPackEnds") /\ NoFault /\ Same /\ Does(TRUE) /\ NoHost
    /\ Returns("OK")

(***************************************************************************)
(* waitTillReady                                                           *)
(***************************************************************************)
Asks(kind, then) == Ask(kind) /\ Goes(then)

Ready ==
    /\ At("ready") /\ NoFault /\ Same /\ NoChange /\ NoHost
    /\ IF driver THEN Goes("sessions") /\ NoUI ELSE Asks("confirm", "confirmed")

\* The driver's set-up: a terminal, the command, and what they lead to.
Confirmed ==
    /\ At("confirmed") /\ NoFault /\ Same /\ NoChange
    /\ Answered("confirm") /\ EndQuestion
    /\ UNCHANGED <<hypervisor, sessionLoaded, extPack, data, ran, licensed>>
    /\ IF result = OK THEN driver' \in BOOLEAN /\ Goes(IF driver' THEN "sessions" ELSE "alert")
       ELSE Goes("alert") /\ UNCHANGED driver

Alert ==
    /\ At("alert") /\ NoFault /\ Same /\ NoChange /\ NoHost
    /\ Asks("alert", "alerted")

Alerted ==
    /\ At("alerted") /\ NoFault /\ Same /\ NoChange /\ NoHost
    /\ Answered("alert") /\ EndQuestion /\ Returns("FALSE")

\* The sessions count as loaded even where loading them failed.
Sessions ==
    /\ At("sessions") /\ NoFault /\ Same /\ Does(TRUE)
    /\ sessionLoaded' = TRUE
    /\ Goes(IF extPack THEN "extPackEnds" ELSE "license")
    /\ UNCHANGED <<hypervisor, driver, extPack, data, ran, licensed>>

License ==
    /\ At("license") /\ NoFault /\ Same /\ NoChange /\ NoHost
    /\ Asks("license", "licensed")

\* Deviation: any answer but UI_CANCEL will do.
LicensedUnlessCancelled ==
    /\ At("licensed") /\ NoFault /\ Same /\ NoChange
    /\ Answered("license") /\ EndQuestion
    /\ IF result # CANCEL THEN Goes("extPack") ELSE Returns("FALSE")
    /\ licensed' = (meant = OK)
    /\ UNCHANGED <<hypervisor, driver, sessionLoaded, extPack, data, ran>>

Licensed ==
    /\ At("licensed") /\ NoFault /\ Same /\ NoChange
    /\ Answered("license") /\ EndQuestion
    /\ IF result = OK THEN Goes("extPack") ELSE Returns("FALSE")
    /\ licensed' = (meant = OK)
    /\ UNCHANGED <<hypervisor, driver, sessionLoaded, extPack, data, ran>>

(***************************************************************************)
(* vboxInstall.  The test for another try always holds, so each loop goes  *)
(* on behind itself once its tries are used up.                            *)
(***************************************************************************)
Config ==
    /\ At("config") /\ NoFault /\ Same /\ Does(TRUE) /\ NoHost
    /\ IF job.i = Retries THEN Goes("keys") ELSE ReadsConfig("signature")

ConfigSignature == Signature("signature", "gotConfig")

GotConfig ==
    /\ At("gotConfig") /\ NoFault /\ Same /\ Does(TRUE)
    /\ UNCHANGED <<hypervisor, driver, sessionLoaded, extPack, ran, licensed>>
    /\ CASE ConfigAnswer(ConfigRes) = "OK" -> data' \in {"lacking", "full"} /\ Goes("keys")
         [] ConfigAnswer(ConfigRes) = "NOT_VALIDATED" -> Returns("NOT_VALIDATED") /\ UNCHANGED data
         [] OTHER -> Again("config") /\ UNCHANGED data

Keys ==
    /\ At("keys") /\ NoFault /\ Same /\ Does(TRUE) /\ NoHost
    /\ IF data = "full" THEN Starts("installer") ELSE Returns("EXTERNAL_ERROR")

\* Each try has a temporary file of its own.
Installer ==
    /\ At("installer") /\ NoFault /\ Does(TRUE) /\ NoHost
    /\ IF job.i = Retries THEN Starts("install") /\ Same
       ELSE Fetches("installer", "gotInstaller") /\ Removes({"installer"})

GotInstaller ==
    /\ At("gotInstaller") /\ NoFault /\ Same /\ Does(TRUE) /\ NoHost
    /\ IF job.res = "OK" /\ disk["installer"] = "good" THEN Starts("install") ELSE Again("installer")

\* No package manager, or the installer cannot be started: another try; neither
\* xdg-open nor pkexec nor gksudo: no way to install.
InstallerRuns ==
    /\ At("install") /\ Does(TRUE)
    /\ IF job.i = Retries
       THEN Returns("OK") /\ Same /\ NoFault /\ NoHost
       ELSE \/ Again("install") /\ Same /\ OneFault /\ NoHost
            \/ Returns("NOT_IMPLEMENTED") /\ Same /\ OneFault /\ NoHost
            \/ /\ ran' = ran \cup {[file |-> "installer", content |-> disk["installer"], data |-> data, licensed |-> licensed]}
               /\ hypervisor' \in {hypervisor, hypervisor \/ disk["installer"] \in {"bad", "good"}}
               /\ Goes("detect") /\ Same /\ NoFault
               /\ UNCHANGED <<driver, sessionLoaded, extPack, data, licensed>>

\* A hypervisor that is found is waited for until it validates.
Detect ==
    /\ At("detect") /\ NoFault /\ Does(TRUE) /\ NoHost
    /\ IF hypervisor THEN Removes({"installer"}) /\ Returns("OK")
       ELSE Same /\ Again("install")

(***************************************************************************)
(* Specification.                                                          *)
(***************************************************************************)
InstallCalls ==
    /\ \/ hypervisor /\ Begins("waitTillReady", "ready")
       \/ ~hypervisor /\ Begins("vboxInstall", "config")
    /\ data' = "none"
    /\ UNCHANGED <<uiVars, hypervisor, driver, sessionLoaded, extPack, ran, licensed>>

InstallSteps ==
    \/ ExtPack \/ PackSignature \/ PackConfig \/ GotPack \/ InstallPack \/ ExtPackEnds
    \/ Ready \/ Confirmed \/ Alert \/ Alerted \/ Sessions \/ License \/ Licensed
    \/ Config \/ ConfigSignature \/ GotConfig \/ Keys \/ Installer \/ GotInstaller
    \/ InstallerRuns \/ Detect

\* A process that has died asks no questions.
Dies ==
    /\ DownloadsDie
    /\ result' = UNDEFINED /\ asking' = NotAsking /\ dialogs' = {} /\ aborted' = FALSE
    /\ abortHandledFlag' = FALSE /\ aborter' = "no" /\ acknowledged' = FALSE /\ meant' = UNDEFINED /\ UNCHANGED aborts
    /\ sessionLoaded' = FALSE /\ data' = "none"
    /\ UNCHANGED <<hypervisor, driver, extPack, ran, licensed>>

UserActs == \E kind \in {"confirm", "alert", "license"} : Answer(kind)
AppAborts == (\E wait \in BOOLEAN : Abort(wait)) \/ AbortCancels \/ AbortFlag \/ AbortReturns
AppHandles == AbortHandled

Next ==
    \/ (DownloadCalls \/ DownloadSteps \/ AbortTransfer \/ AbortAllTransfers) /\ NoUI /\ NoHost
    \/ InstallCalls \/ InstallSteps \/ Dies
    \/ (WaitResult \/ UserActs \/ AppAborts \/ AppHandles) /\ UNCHANGED dlVars /\ NoHost

\* The thread runs, the user answers, an abort goes on and is acknowledged.
Spec ==
    /\ Init /\ [][Next]_vars
    /\ WF_vars((DownloadSteps /\ NoUI /\ NoHost) \/ InstallSteps)
    /\ WF_vars(WaitResult /\ UNCHANGED dlVars /\ NoHost)
    /\ WF_vars(UserActs /\ UNCHANGED dlVars /\ NoHost)
    /\ WF_vars((AbortCancels \/ AbortFlag \/ AbortReturns) /\ UNCHANGED dlVars /\ NoHost)
    /\ WF_vars(AppHandles /\ UNCHANGED dlVars /\ NoHost)

(***************************************************************************)
(* Properties.                                                             *)
(***************************************************************************)
\* The types of the state.
TypeOK ==
    /\ disk \in [File -> Content] /\ stream \in BOOLEAN
    /\ job.call \in {"none", "cernVMDownload", "downloadFileURL", "downloadFile", "downloadFileGZ", "waitTillReady", "vboxInstall"}
    /\ ~Idle => job.i \in 0 .. Retries
    /\ result \in Pending .. CANCEL /\ dialogs \subseteq {"confirm", "alert", "license"}
    /\ data \in {"none", "lacking", "full"}

\* A download that answers HVE_OK hands out the file it promised, whole and as its
\* checksum says, whatever earlier calls, failures, aborts and crashes have left in
\* the cache: half a transfer and half an extraction are never taken for the file.
HandsOutGood ==
    returned.answer = "OK" =>
        CASE returned.call \in {"cernVMDownload", "downloadFileURL"} ->
                disk["image"] = disk["checksum"] /\ disk["image"] \in {"good", "wrong"}
          [] returned.call = "downloadFile"   -> disk["image"] = "good"
          [] returned.call = "downloadFileGZ" -> disk["extracted"] = "good"
          [] OTHER -> TRUE

\* Nothing is given to an installer before the signed configuration was read, though
\* the loop that reads it goes on when its tries are used up; and an extension pack is
\* installed only after its bytes were checked and after the user accepted its license
\* in answer to that very question, however many questions were asked, answered and
\* aborted before.
RunsWhatItMay ==
    \A r \in ran : r.data = "full" /\ (r.file = "pack" => r.content = "good" /\ r.licensed)

\* Every call returns: loops that retry, jump and fall through all come to an end when
\* the network damages only so many transfers and the user answers.
CallsEnd == []<>Idle

\* abort(true) returns only once the application has acknowledged this abort, not on
\* what an earlier one has left (a process that dies returns nothing).
AbortWaits == [][(aborter = "waits" /\ aborter' = "no" /\ stops' = stops) => acknowledged]_vars
=============================================================================
