----------------------------- MODULE UploadCheck -----------------------------
(***************************************************************************)
(* ParserSchedule.checkUpload: every two minutes the price lists that      *)
(* arrived in the upload directory are parsed and removed, whether or not  *)
(* the run before has ended.  What a parse stores is in ScheduleImport.    *)
(***************************************************************************)
EXTENDS Integers

CONSTANTS
    File,        \* names in the directory
    Ours,        \* those a rule has a parser for
    Turn,        \* runs that may overlap
    MaxUploads,  \* bound on the files that arrive
    MaxOutages   \* bound on the times the directory goes away

VARIABLES
    files,       \* the names in the directory
    mounted,     \* it can be accessed
    outage,      \* the key check-upload is in the cache
    turn,        \* [Turn -> the run]
    uploads, outages

uploadVars == <<files, mounted, outage, turn, uploads, outages>>

Resting == [at |-> "rest"]
At(step, todo) == [at |-> step, todo |-> todo]
Handling(step, todo, file) == [at |-> step, todo |-> todo, file |-> file]

UploadInit ==
    /\ files \in SUBSET File /\ mounted \in BOOLEAN /\ outage = FALSE
    /\ turn = [t \in Turn |-> Resting]
    /\ uploads = 0 /\ outages = 0

----------------------------------------------------------------------------
\* checkUpload begins; for an hour after an outage was seen it ends at once.
CheckUpload(t) ==
    /\ turn[t] = Resting /\ ~outage
    /\ turn' = [turn EXCEPT ![t] = At("access", {})]
    /\ UNCHANGED <<files, mounted, outage, uploads, outages>>

\* fs.access; its failure is remembered and mailed, and the run goes on.
Access(t) ==
    /\ turn[t].at = "access"
    /\ outage' = (outage \/ ~mounted)
    /\ turn' = [turn EXCEPT ![t] = At("readdir", {})]
    /\ UNCHANGED <<files, mounted, uploads, outages>>

\* A fault: the turn is not given up.
Hang(t) == turn' = turn

\* An error ends the run, and with it its later files.
Throw(t) == turn' = [turn EXCEPT ![t] = Resting]

ReadDir(t) ==
    /\ turn[t].at = "readdir"
    /\ IF mounted THEN turn' = [turn EXCEPT ![t] = At("next", files)] ELSE Throw(t)
    /\ UNCHANGED <<files, mounted, outage, uploads, outages>>

\* The next file: one of ours is executed, any other only logged.
NextFile(t) ==
    /\ turn[t].at = "next"
    /\ IF turn[t].todo = {} THEN turn' = [turn EXCEPT ![t] = Resting]
       ELSE \E f \in turn[t].todo :
               turn' = [turn EXCEPT ![t] =
                          Handling(IF f \in Ours THEN "execute" ELSE "rm", @.todo \ {f}, f)]
    /\ UNCHANGED <<files, mounted, outage, uploads, outages>>

\* execute() ends, with the goods stored or with a mail about its error.
Executed(t) ==
    /\ turn[t].at = "execute"
    /\ turn' = [turn EXCEPT ![t] = Handling("rm", @.todo, @.file)]
    /\ UNCHANGED <<files, mounted, outage, uploads, outages>>

\* fs.rm rejects when another run has removed the file.
Rm(t) ==
    /\ turn[t].at = "rm"
    /\ IF mounted /\ turn[t].file \in files
       THEN /\ files' = files \ {turn[t].file}
            /\ turn' = [turn EXCEPT ![t] = At("next", @.todo)]
       ELSE Throw(t) /\ UNCHANGED files
    /\ UNCHANGED <<mounted, outage, uploads, outages>>

TurnStep(t) == Access(t) \/ ReadDir(t) \/ NextFile(t) \/ Executed(t) \/ Rm(t)

----------------------------------------------------------------------------
\* A supplier's mail or a client puts a file there, or a newer one of its name.
Upload(f) ==
    /\ uploads < MaxUploads /\ mounted
    /\ uploads' = uploads + 1
    /\ files' = files \cup {f}
    /\ UNCHANGED <<mounted, outage, turn, outages>>

GoesAway ==
    /\ mounted /\ outages < MaxOutages
    /\ mounted' = FALSE /\ outages' = outages + 1
    /\ UNCHANGED <<files, outage, turn, uploads>>

ComesBack ==
    /\ ~mounted /\ mounted' = TRUE
    /\ UNCHANGED <<files, outage, turn, uploads, outages>>

\* The hour of the cached key is over.
OutageExpires ==
    /\ outage /\ outage' = FALSE
    /\ UNCHANGED <<files, mounted, turn, uploads, outages>>

UploadNext ==
    \/ \E t \in Turn : CheckUpload(t) \/ TurnStep(t)
    \/ \E f \in File : Upload(f)
    \/ GoesAway \/ ComesBack \/ OutageExpires

\* The schedule goes on, the steps of a run end, the cached key expires and the
\* directory is mounted again.
UploadFairness ==
    /\ \A t \in Turn : WF_uploadVars(CheckUpload(t)) /\ WF_uploadVars(TurnStep(t))
    /\ WF_uploadVars(OutageExpires) /\ WF_uploadVars(ComesBack)

UploadSpec == UploadInit /\ [][UploadNext]_uploadVars /\ UploadFairness

----------------------------------------------------------------------------
(***************************************************************************)
(* Every file that arrives leaves the directory: a run that ends with an   *)
(* error, because another took its file away or because the directory      *)
(* went, holds up the files behind it no longer than to a later run.       *)
(***************************************************************************)
EveryUploadLeaves == \A f \in File : f \in files ~> f \notin files
=============================================================================
