--------------------------- MODULE ContentTransfer ---------------------------
(* One file on its way from a supplier to a consumer: TransferTask.call with its *)
(* retries, ContentCopy.createFile into a temporary file and over the old local  *)
(* file, FileHandler.handle answering with the whole file or with the part asked *)
(* for, and Requester.finalizeRequest judging what came of it.                   *)
(*                                                                               *)
(* The content of a file is a sequence of pieces [version, from, to]; positions  *)
(* are byte offsets, and a stream can break at those in Cuts.                    *)
EXTENDS Integers, Sequences, FiniteSets

CONSTANTS
    Versions,      \* what the supplier's file can be over time
    Listed,        \* the version the inventory lists, which the consumer asks for
    Size,          \* the length of each version
    Cuts,          \* the positions at which a stream can break
    MaxRetries,    \* the retries RetryPolicyLinearTime has time for
    Faults,        \* what else may go wrong, see the actions
    MaxFaults,     \* how many of them
    OldFile,       \* what the local path may hold before: a file,
    OldDirectory,  \* a directory,
    NoFile,        \* or nothing
    Remains        \* what is left of a directory that was not deleted altogether

ASSUME VersionsAssumption == Listed \in Versions /\ Size \in [Versions -> Nat]
ASSUME CutsAssumption == Cuts \subseteq Nat
ASSUME RetriesAssumption == MaxRetries \in Nat /\ MaxFaults \in Nat
ASSUME FaultsAssumption ==
    Faults \subseteq {"changed", "reopened", "vanished", "unrenamed", "diskfull",
                      "trailer", "undeleted"}
\* A file is not the absence of one.
ASSUME NoFileAssumption ==
    \A n \in 0..Size[Listed] :
        NoFile # IF n = 0 THEN <<>> ELSE <<[version |-> Listed, from |-> 0, to |-> n]>>

ASSUME OldsAssumption == {NoFile, OldFile} \cap {OldDirectory, Remains} = {}

VARIABLES
    before,        \* what the local path holds when the transfer begins
    supplier,      \* the version the supplier has
    pc,            \* where TransferTask.call is
    response,      \* the answer being read: from where to where of which version
    status,        \* Transfer.status
    bytes,         \* Transfer.bytesTransferred
    named,         \* TransferContent.file # null
    temp,          \* the temporary file
    dest,          \* what the local path holds
    enabled,       \* the retry policy has not been disabled
    retries,       \* retries made
    interrupted,   \* the task has been cancelled
    outcome,       \* what the requester reports, "none" before it does
    disturbed      \* the faults that happened, and "truncated"

diskVars == <<temp, dest>>
policyVars == <<enabled, retries>>
vars == <<before, supplier, pc, response, status, bytes, named, diskVars, policyVars,
          interrupted, outcome, disturbed>>

FileSize == Size[Listed]

Piece(v, from, to) == [version |-> v, from |-> from, to |-> to]

Whole(v) == IF Size[v] = 0 THEN <<>> ELSE <<Piece(v, 0, Size[v])>>

\* A piece written behind the piece it continues becomes one with it.
Write(content, p) ==
    IF content = <<>> THEN <<p>>
    ELSE LET n == Len(content)
             last == content[n]
         IN  IF last.version = p.version /\ last.to = p.from
             THEN [content EXCEPT ![n].to = p.to]
             ELSE Append(content, p)

\* MathHelper.percentComplete divides to three significant digits, half up, so what
\* is not below 100 percent starts at 99.95.
LooksComplete(n) == FileSize = 0 \/ 10000 * n >= 9995 * FileSize

Pieces == [version : Versions, from : Nat, to : Nat]

TypeOK ==
    /\ before \in {NoFile, OldFile, OldDirectory}
    /\ supplier \in Versions
    /\ pc \in {"request", "receive", "replace", "rename", "retry", "returned",
               "crashed"}
    /\ response \in Pieces
    /\ status \in {"RUNNING", "RETRY", "COMPLETED", "FAILED"}
    /\ bytes \in Nat
    /\ named \in BOOLEAN
    /\ temp = NoFile \/ temp \in Seq(Pieces)
    /\ dest \in {NoFile, OldFile, OldDirectory, Remains} \/ dest \in Seq(Pieces)
    /\ enabled \in BOOLEAN
    /\ retries \in 0..MaxRetries
    /\ interrupted \in BOOLEAN
    /\ outcome \in {"none", "success", "failure"}
    /\ disturbed \subseteq Faults \cup {"truncated"}

Nothing == Piece(Listed, 0, 0)

Init ==
    /\ before \in {NoFile, OldFile, OldDirectory}
    /\ supplier = Listed
    /\ pc = "request"
    /\ response = Nothing
    /\ status = "RUNNING"
    /\ bytes = 0
    /\ named = FALSE
    /\ temp = NoFile
    /\ dest = before
    /\ enabled = TRUE
    /\ retries = 0
    /\ interrupted = FALSE
    /\ outcome = "none"
    /\ disturbed = {}

-----------------------------------------------------------------------------
(* What happens around the transfer                                            *)

\* Bound: a fault happens once, and no more than MaxFaults happen.
Fault(f) ==
    /\ f \in Faults \ disturbed
    /\ Cardinality(disturbed \cap Faults) < MaxFaults
    /\ disturbed' = disturbed \cup {f}

\* The supplier's file is overwritten; its inventory may not know yet.
SupplierChanges ==
    /\ pc \notin {"returned", "crashed"}
    /\ Fault("changed")
    /\ \E v \in Versions \ {supplier} : supplier' = v
    /\ UNCHANGED <<before, pc, response, status, bytes, named, diskVars, policyVars,
                   interrupted, outcome>>

\* Another run finds the temporary file in no inventory and removes it.
TempVanishes ==
    /\ pc \in {"request", "retry"}
    /\ temp # NoFile
    /\ Fault("vanished")
    /\ temp' = NoFile
    /\ UNCHANGED <<before, supplier, pc, response, status, bytes, named, dest,
                   policyVars, interrupted, outcome>>

\* future.cancel(true).
Cancel ==
    /\ pc \notin {"returned", "crashed"}
    /\ ~interrupted
    /\ interrupted' = TRUE
    /\ UNCHANGED <<before, supplier, pc, response, status, bytes, named, diskVars,
                   policyVars, outcome, disturbed>>

\* A directory is deleted file by file, which can end half-way.
IsDirectory == dest \in {OldDirectory, Remains}

HalfDeleted == IF pc = "replace" /\ IsDirectory THEN {dest, Remains} ELSE {dest}

Crash ==
    /\ pc \notin {"returned", "crashed"}
    /\ pc' = "crashed"
    /\ dest' \in HalfDeleted
    /\ UNCHANGED <<before, supplier, response, status, bytes, named, temp,
                   policyVars, interrupted, outcome, disturbed>>

-----------------------------------------------------------------------------
(* TransferTask.fetchData                                                      *)

\* Mutant: the range is not looked at.
AnswerWhole == Piece(supplier, 0, Size[supplier])

\* FileHandler.handle: a range that begins within the file is honoured, any other
\* is answered with the whole file, and never is the version looked at.
Answer ==
    IF bytes < Size[supplier] THEN Piece(supplier, bytes, Size[supplier])
    ELSE Piece(supplier, 0, Size[supplier])

\* Mutant: the old local file makes room first.
RespondOverOld ==
    /\ pc = "request"
    /\ pc' = "receive"
    /\ response' = Answer
    /\ temp' = IF named /\ temp # NoFile THEN temp ELSE <<>>
    /\ dest' = NoFile
    /\ UNCHANGED <<before, supplier, status, bytes, named, policyVars, interrupted,
                   outcome, disturbed>>

\* getTempFile and the stream that appends to it: the file of the last attempt if
\* there is one, else a new one.
Respond ==
    /\ pc = "request"
    /\ pc' = "receive"
    /\ response' = Answer
    /\ temp' = IF named /\ temp # NoFile THEN temp ELSE <<>>
    /\ UNCHANGED <<before, supplier, status, bytes, named, dest, policyVars,
                   interrupted, outcome, disturbed>>

\* The file cannot be created or opened; the count starts again, the file is kept.
OpenFails ==
    /\ pc = "request"
    /\ Fault("reopened")
    /\ pc' = "retry"
    /\ bytes' = 0
    /\ status' = "FAILED"
    /\ UNCHANGED <<before, supplier, response, named, diskVars, policyVars,
                   interrupted, outcome>>

\* The connection fails, or the answer has an unknown code.
RequestFails ==
    /\ pc = "request"
    /\ pc' = "retry"
    /\ status' = "FAILED"
    /\ UNCHANGED <<before, supplier, response, bytes, named, diskVars, policyVars,
                   interrupted, outcome, disturbed>>

\* The supplier refuses: no file, no permission, a disabled content set. The file
\* of an earlier attempt is deleted and there are no retries.
Refused ==
    /\ pc = "request"
    /\ pc' = "retry"
    /\ status' = "FAILED"
    /\ temp' = IF named THEN NoFile ELSE temp
    /\ enabled' = FALSE
    /\ UNCHANGED <<before, supplier, response, bytes, named, dest, retries,
                   interrupted, outcome, disturbed>>

\* StreamCopier.copy writes up to the next cut and counts it. A file overwritten
\* in place is read as it is now.
Receive ==
    /\ pc = "receive"
    /\ ~interrupted
    /\ \E p \in Cuts, v \in {response.version, supplier} :
        /\ response.from < p /\ p <= response.to /\ p <= Size[v]
        /\ \A q \in Cuts : response.from < q => p <= q
        /\ temp' = Write(temp, Piece(v, response.from, p))
        /\ bytes' = bytes + p - response.from
        /\ response' = [response EXCEPT !.from = p]
    /\ UNCHANGED <<before, supplier, pc, status, named, dest, policyVars,
                   interrupted, outcome, disturbed>>

\* The stream ends, all of it read or not: a lost connection looks the same, and so
\* does a supplier that stops because its content set was disabled.
StreamEnds ==
    /\ pc = "receive"
    /\ ~interrupted
    /\ LooksComplete(bytes)
    /\ pc' = "replace"
    /\ disturbed' = IF response.from < response.to THEN disturbed \cup {"truncated"}
                    ELSE disturbed
    /\ UNCHANGED <<before, supplier, response, status, bytes, named, diskVars,
                   policyVars, interrupted, outcome>>

\* createFile keeps the temporary file for the next attempt.
KeepTemp ==
    /\ pc' = "retry"
    /\ status' = "FAILED"
    /\ named' = TRUE
    /\ response' = Nothing

\* Too little has come, or reading fails. When everything has been read it can
\* only be the end of a compressed stream that is missing.
StreamFails ==
    /\ pc = "receive"
    /\ ~interrupted
    /\ KeepTemp
    /\ IF response.from = response.to /\ LooksComplete(bytes) THEN Fault("trailer")
       ELSE UNCHANGED disturbed
    /\ UNCHANGED <<before, supplier, bytes, diskVars, policyVars, interrupted,
                   outcome>>

\* The disk fills up in the middle of a write: bytes are written and not counted.
WriteFails ==
    /\ pc = "receive"
    /\ ~interrupted
    /\ response.from < response.to
    /\ Fault("diskfull")
    /\ temp' = Write(temp, Piece(response.version, response.from, response.from + 1))
    /\ KeepTemp
    /\ UNCHANGED <<before, supplier, bytes, dest, policyVars, interrupted, outcome>>

\* An interrupt ends the transfer: the temporary file goes, and so do retries.
GiveUp ==
    /\ pc' = "retry"
    /\ status' = "FAILED"
    /\ temp' = NoFile
    /\ enabled' = FALSE
    /\ response' = Nothing

\* Mutant: the copier stops and the copy counts as complete.
ReceiveCutShort ==
    /\ pc = "receive"
    /\ interrupted
    /\ pc' = "replace"
    /\ UNCHANGED <<before, supplier, response, status, bytes, named, diskVars,
                   policyVars, interrupted, outcome, disturbed>>

ReceiveInterrupted ==
    /\ pc = "receive"
    /\ interrupted
    /\ GiveUp
    /\ UNCHANGED <<before, supplier, bytes, named, dest, retries, interrupted,
                   outcome, disturbed>>

\* What the local path held is deleted.
Replace ==
    /\ pc = "replace"
    /\ pc' = "rename"
    /\ dest' = NoFile
    /\ UNCHANGED <<before, supplier, response, status, bytes, named, temp,
                   policyVars, interrupted, outcome, disturbed>>

\* A file that cannot be deleted is renamed over, whatever delete() returned.
FileUndeleted ==
    /\ pc = "replace"
    /\ dest # NoFile /\ ~IsDirectory
    /\ Fault("undeleted")
    /\ pc' = "rename"
    /\ UNCHANGED <<before, supplier, response, status, bytes, named, diskVars,
                   policyVars, interrupted, outcome>>

\* deleteDirectory fails, perhaps half-way: the attempt has failed, with all its bytes
\* counted.
DirectoryUndeleted ==
    /\ pc = "replace"
    /\ IsDirectory
    /\ Fault("undeleted")
    /\ dest' \in HalfDeleted
    /\ KeepTemp
    /\ UNCHANGED <<before, supplier, bytes, temp, policyVars, interrupted, outcome>>

\* createFile returns; the code was OK or OK_PARTIAL, so that is the end.
Complete ==
    /\ pc = "rename"
    /\ pc' = "retry"
    /\ named' = FALSE
    /\ status' = "COMPLETED"
    /\ enabled' = FALSE
    /\ response' = Nothing
    /\ UNCHANGED <<before, supplier, bytes, retries, interrupted, outcome>>

Rename == Complete /\ dest' = temp /\ temp' = NoFile /\ UNCHANGED disturbed

\* Twenty more attempts to rename fail, which is logged.
RenameFails == Complete /\ Fault("unrenamed") /\ UNCHANGED diskVars

\* The wait between two of them is interrupted.
RenameInterrupted ==
    /\ pc = "rename"
    /\ interrupted
    /\ Fault("unrenamed")
    /\ GiveUp
    /\ UNCHANGED <<before, supplier, bytes, named, dest, retries, interrupted,
                   outcome>>

-----------------------------------------------------------------------------
(* TransferTask.call and the requester                                         *)

Again == pc = "retry" /\ enabled /\ pc' = "request" /\ status' = "RETRY"

\* Mutants: a retry takes no time off the policy; the policy is not asked.
RetryUncounted ==
    /\ Again
    /\ ~interrupted
    /\ retries < MaxRetries
    /\ UNCHANGED <<before, supplier, response, bytes, named, diskVars, policyVars,
                   interrupted, outcome, disturbed>>

RetryUnasked ==
    /\ Again
    /\ ~interrupted
    /\ retries' = retries + 1
    /\ UNCHANGED <<before, supplier, response, bytes, named, diskVars, enabled,
                   interrupted, outcome, disturbed>>

\* RetryPolicyLinearTime.execute sleeps.
Retry ==
    /\ Again
    /\ ~interrupted
    /\ retries < MaxRetries
    /\ retries' = retries + 1
    /\ UNCHANGED <<before, supplier, response, bytes, named, diskVars, enabled,
                   interrupted, outcome, disturbed>>

\* It finds the thread interrupted: this is the last attempt.
LastTry ==
    /\ Again
    /\ interrupted
    /\ enabled' = FALSE
    /\ UNCHANGED <<before, supplier, response, bytes, named, diskVars, retries,
                   interrupted, outcome, disturbed>>

\* There is no time for another retry, the sleep was interrupted, or the policy is
\* disabled.
Return ==
    /\ pc = "retry"
    /\ ~enabled \/ interrupted \/ retries = MaxRetries
    /\ pc' = "returned"
    /\ UNCHANGED <<before, supplier, response, status, bytes, named, diskVars,
                   policyVars, interrupted, outcome, disturbed>>

\* Mutant: the bytes are not compared.
JudgeByStatus == IF status = "COMPLETED" THEN "success" ELSE "failure"

\* Requester.finalizeRequest.
Judge == IF status = "COMPLETED" /\ bytes = FileSize THEN "success" ELSE "failure"

\* The requester has its transfer back: call returned it, or the requester was
\* interrupted and does not wait for the task it cancelled.
FinalizeRequest ==
    /\ pc = "returned" \/ (interrupted /\ pc # "crashed")
    /\ outcome = "none"
    /\ outcome' = Judge
    /\ UNCHANGED <<before, supplier, pc, response, status, bytes, named, diskVars,
                   policyVars, interrupted, disturbed>>

FetchData ==
    \/ Respond \/ OpenFails \/ RequestFails \/ Refused
    \/ Receive \/ StreamEnds \/ StreamFails \/ WriteFails \/ ReceiveInterrupted
    \/ Replace \/ FileUndeleted \/ DirectoryUndeleted
    \/ Rename \/ RenameFails \/ RenameInterrupted

Call == FetchData \/ Retry \/ LastTry \/ Return

Ended ==
    /\ pc = "crashed" \/ (pc = "returned" /\ outcome # "none")
    /\ UNCHANGED vars

Next ==
    \/ Call \/ FinalizeRequest
    \/ SupplierChanges \/ TempVanishes \/ Cancel \/ Crash \/ Ended

Spec == Init /\ [][Next]_vars /\ WF_vars(Call) /\ WF_vars(FinalizeRequest)
=============================================================================
