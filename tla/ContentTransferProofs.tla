------------------------ MODULE ContentTransferProofs ------------------------
(* The invariants of ContentTransfer for files of any size and versions of any   *)
(* kind, broken at any positions, with any number of retries and faults.         *)
EXTENDS ContentTransferProperties, FiniteSetTheorems, TLAPS

Prefix(n) == IF n = 0 THEN <<>> ELSE <<Piece(Listed, 0, n)>>

\* Before a request, the temporary file of an earlier attempt waits to be continued.
Asking == pc = "request" \/ (pc = "retry" /\ enabled)
Placing == pc \in {"replace", "rename"}

\* While a stream is read there is a file to write to.
Open == pc = "receive" => temp \in Seq(Pieces)

\* A transfer that is complete is over, and an outcome was decided at the end of call
\* unless the requester was interrupted.
Decided ==
    /\ status = "COMPLETED" => ~enabled /\ pc \in {"retry", "returned", "crashed"}
    /\ outcome = "success" => status = "COMPLETED" /\ bytes = FileSize
    /\ outcome # "none" /\ ~interrupted => pc = "returned"

\* Streams that are truncated or miss their trailer: the bytes count, or are too many.
Whether == bytes > FileSize \/ temp = Prefix(bytes)
Mild ==
    /\ supplier = Listed
    /\ Asking => IF named THEN Whether ELSE bytes = 0
    /\ pc = "receive" =>
        /\ response.version = Listed /\ response.to = FileSize
        /\ \/ bytes > FileSize
           \/ temp = Prefix(bytes) /\ response.from = bytes
           \/ temp = Prefix(bytes) /\ bytes = FileSize /\ response.from = 0
    /\ Placing => Whether
    /\ status = "COMPLETED" /\ bytes = FileSize => dest = Whole(Listed)

\* Nothing interferes, or a file that could not be deleted is renamed over.
Spared == disturbed = {} \/ (disturbed = {"undeleted"} /\ before # OldDirectory)

\* Then the old stays until the new is complete.
Clean ==
    /\ bytes <= FileSize
    /\ Asking /\ named => bytes < FileSize
    /\ pc = "receive" => response.from = bytes
    /\ Placing \/ status = "COMPLETED" => bytes = FileSize
    /\ temp # NoFile => temp = Prefix(bytes)
    /\ pc \notin {"rename", "crashed"} /\ status # "COMPLETED" => dest = before
    /\ outcome = "failure" /\ ~interrupted => dest = before
    /\ \/ dest \in {NoFile, before, Whole(Listed)}
       \/ before = OldDirectory /\ dest = Remains /\ pc = "crashed"

MildFaults == {"truncated", "trailer", "undeleted"}

Inv ==
    /\ TypeOK
    /\ Open
    /\ Decided
    /\ disturbed \subseteq MildFaults => Mild
    /\ Spared => Clean

-----------------------------------------------------------------------------
(* Files                                                                        *)

\* The listed file has a length.
LEMMA FileSizeNat == FileSize \in Nat
BY VersionsAssumption DEF FileSize

\* A piece of a version is a piece.
LEMMA PieceType ==
    ASSUME NEW v \in Versions, NEW from \in Nat, NEW to \in Nat
    PROVE  Piece(v, from, to) \in Pieces
BY DEF Piece, Pieces

\* Write keeps a content a content.
LEMMA WriteType ==
    ASSUME NEW content \in Seq(Pieces), NEW p \in Pieces
    PROVE  Write(content, p) \in Seq(Pieces)
<1>1. CASE content = <<>>
    BY <1>1 DEF Write
<1>2. CASE content # <<>>
    <2> DEFINE n == Len(content)
    <2>1. n \in DOMAIN content /\ content[n] \in Pieces
        BY <1>2
    <2>2. [content EXCEPT ![n] = [content[n] EXCEPT !.to = p.to]] \in Seq(Pieces)
        <3>1. [content[n] EXCEPT !.to = p.to] \in Pieces
            BY <2>1 DEF Pieces
        <3> QED
            BY <2>1, <3>1
    <2>3. Append(content, p) \in Seq(Pieces)
        OBVIOUS
    <2> QED
        BY <1>2, <2>2, <2>3 DEF Write
<1> QED
    BY <1>1, <1>2

\* A piece that starts where the listed bytes end continues them.
LEMMA WriteContinues ==
    ASSUME NEW n \in Nat, NEW p \in Nat, n < p
    PROVE  Write(Prefix(n), Piece(Listed, n, p)) = Prefix(p)
<1>1. CASE n = 0
    BY <1>1 DEF Write, Prefix
<1>2. CASE n # 0
    <2> DEFINE content == <<Piece(Listed, 0, n)>>
    <2>1. Prefix(n) = content /\ Prefix(p) = <<Piece(Listed, 0, p)>>
        BY <1>2 DEF Prefix
    <2>2. content # <<>> /\ Len(content) = 1 /\ content[1] = Piece(Listed, 0, n)
        OBVIOUS
    <2>3. Write(content, Piece(Listed, n, p)) = [content EXCEPT ![1].to = p]
        BY <2>2 DEF Write, Piece
    <2>4. [content EXCEPT ![1].to = p] = <<Piece(Listed, 0, p)>>
        <3>1. [content[1] EXCEPT !.to = p] = Piece(Listed, 0, p)
            BY <2>2 DEF Piece
        <3> QED
            BY <2>2, <3>1
    <2> QED
        BY <2>1, <2>3, <2>4
<1> QED
    BY <1>1, <1>2

\* All the bytes are the whole file.
LEMMA PrefixIsWhole == Prefix(FileSize) = Whole(Listed)
BY DEF Prefix, Whole, FileSize

\* No beginning of the listed file is the absence of a file.
LEMMA PrefixIsFile == \A n \in 0..FileSize : Prefix(n) # NoFile
BY NoFileAssumption DEF Prefix, Piece, FileSize

\* The supplier answers with a piece (FileHandler.handle).
LEMMA AnswerType == TypeOK => Answer \in Pieces
BY PieceType, VersionsAssumption DEF TypeOK, Answer

\* The answer before any is a piece.
LEMMA NothingType == Nothing \in Pieces
BY PieceType, VersionsAssumption DEF Nothing
-----------------------------------------------------------------------------
(* One lemma for each part of the invariant, with a step for each action        *)

\* The invariant holds before the first request.
LEMMA InitInv == Init => Inv
<1> SUFFICES ASSUME Init PROVE Inv
    OBVIOUS
<1>1. TypeOK
    <2>1. retries \in 0..MaxRetries
        BY RetriesAssumption DEF Init
    <2> QED
        BY <2>1, NothingType, VersionsAssumption DEF Init, TypeOK
<1>2. Open /\ Decided
    BY DEF Init, Open, Decided
<1>3. Mild
    BY FileSizeNat DEF Init, Mild, Asking, Placing
<1>4. Clean
    BY FileSizeNat DEF Init, Clean, Asking, Placing
<1> QED
    BY <1>1, <1>2, <1>3, <1>4 DEF Inv

\* Every variable keeps its type, and only Respond begins to read a stream.
LEMMA TypeStep == TypeOK /\ Open /\ [Next]_vars => TypeOK' /\ Open'
<1> SUFFICES ASSUME TypeOK, Open, [Next]_vars PROVE TypeOK' /\ Open'
    OBVIOUS
<1> USE DEF TypeOK, Open, diskVars, policyVars
<1>1. CASE SupplierChanges
    BY <1>1 DEF SupplierChanges, Fault
<1>2. CASE TempVanishes
    BY <1>2 DEF TempVanishes, Fault
<1>3. CASE Cancel
    BY <1>3 DEF Cancel
<1>4. CASE Crash
    BY <1>4 DEF Crash, HalfDeleted
<1>5. CASE Respond
    BY <1>5, AnswerType DEF Respond
<1>6. CASE OpenFails
    BY <1>6 DEF OpenFails, Fault
<1>7. CASE RequestFails
    BY <1>7 DEF RequestFails
<1>8. CASE Refused
    BY <1>8 DEF Refused
<1>9. CASE Receive
    <2>1. PICK p \in Cuts, v \in {response.version, supplier} :
            /\ response.from < p
            /\ temp' = Write(temp, Piece(v, response.from, p))
            /\ bytes' = bytes + p - response.from
            /\ response' = [response EXCEPT !.from = p]
        BY <1>9 DEF Receive
    <2>2. p \in Nat /\ response.from \in Nat /\ v \in Versions
        BY CutsAssumption DEF Pieces
    <2>3. Piece(v, response.from, p) \in Pieces
        BY <2>2, PieceType
    <2>4. bytes' \in Nat
        BY <2>1, <2>2
    <2>5. response' \in Pieces
        BY <2>1, <2>2 DEF Pieces
    <2>6. temp' \in Seq(Pieces)
        BY <1>9, <2>1, <2>3, WriteType DEF Receive
    <2> QED
        BY <1>9, <2>4, <2>5, <2>6 DEF Receive
<1>10. CASE StreamEnds
    BY <1>10 DEF StreamEnds
<1>11. CASE StreamFails
    BY <1>11, NothingType DEF StreamFails, KeepTemp, Fault
<1>12. CASE WriteFails
    <2>1. Piece(response.version, response.from, response.from + 1) \in Pieces
        BY DEF Piece, Pieces
    <2>2. temp' \in Seq(Pieces)
        BY <1>12, <2>1, WriteType DEF WriteFails
    <2> QED
        BY <1>12, <2>2, NothingType DEF WriteFails, KeepTemp, Fault
<1>13. CASE ReceiveInterrupted
    BY <1>13, NothingType DEF ReceiveInterrupted, GiveUp
<1>14. CASE Replace \/ FileUndeleted
    BY <1>14 DEF Replace, FileUndeleted, Fault
<1>23. CASE DirectoryUndeleted
    BY <1>23, NothingType DEF DirectoryUndeleted, HalfDeleted, KeepTemp, Fault
<1>15. CASE Rename
    BY <1>15, NothingType DEF Rename, Complete
<1>16. CASE RenameFails
    BY <1>16, NothingType DEF RenameFails, Complete, Fault
<1>17. CASE RenameInterrupted
    BY <1>17, NothingType DEF RenameInterrupted, GiveUp, Fault
<1>18. CASE Retry
    BY <1>18, RetriesAssumption DEF Retry, Again
<1>19. CASE LastTry
    BY <1>19 DEF LastTry, Again
<1>20. CASE Return
    BY <1>20 DEF Return
<1>21. CASE FinalizeRequest
    BY <1>21 DEF FinalizeRequest, Judge
<1>22. CASE UNCHANGED vars
    BY <1>22 DEF vars
<1> QED
    BY <1>1, <1>2, <1>3, <1>4, <1>5, <1>6, <1>7, <1>8, <1>9, <1>10, <1>11, <1>12, <1>13,
       <1>14, <1>15, <1>16, <1>17, <1>18, <1>19, <1>20, <1>21, <1>22, <1>23
       DEF Next, Call, FetchData, Ended

\* What has interfered stays known.
LEMMA DisturbedGrows == [Next]_vars => disturbed \subseteq disturbed'
<1> SUFFICES ASSUME [Next]_vars PROVE disturbed \subseteq disturbed'
    OBVIOUS
<1>1. CASE SupplierChanges \/ TempVanishes \/ Cancel \/ Crash \/ FinalizeRequest
    BY <1>1 DEF SupplierChanges, TempVanishes, Cancel, Crash, FinalizeRequest, Fault
<1>2. CASE Respond \/ OpenFails \/ RequestFails \/ Refused
    BY <1>2 DEF Respond, OpenFails, RequestFails, Refused, Fault
<1>3. CASE Receive \/ StreamEnds \/ StreamFails \/ WriteFails \/ ReceiveInterrupted
    BY <1>3 DEF Receive, StreamEnds, StreamFails, WriteFails, ReceiveInterrupted, Fault
<1>4. CASE Replace \/ FileUndeleted \/ DirectoryUndeleted
    BY <1>4 DEF Replace, FileUndeleted, DirectoryUndeleted, Fault
<1>7. CASE Rename \/ RenameFails \/ RenameInterrupted
    BY <1>7 DEF Rename, RenameFails, RenameInterrupted, Fault
<1>5. CASE Retry \/ LastTry \/ Return
    BY <1>5 DEF Retry, LastTry, Return
<1>6. CASE UNCHANGED vars
    BY <1>6 DEF vars
<1> QED
    BY <1>1, <1>2, <1>3, <1>4, <1>5, <1>6, <1>7 DEF Next, Call, FetchData, Ended

\* A transfer that is complete is not tried again, and no outcome is taken back.
LEMMA DecidedStep == TypeOK /\ Decided /\ [Next]_vars => Decided'
<1> SUFFICES ASSUME TypeOK, Decided, [Next]_vars PROVE Decided'
    OBVIOUS
<1> USE DEF Decided, TypeOK, policyVars, FileSize
<1>1. CASE SupplierChanges \/ TempVanishes \/ Cancel \/ Crash
    BY <1>1 DEF SupplierChanges, TempVanishes, Cancel, Crash
<1>2. CASE Respond \/ OpenFails \/ RequestFails \/ Refused
    BY <1>2 DEF Respond, OpenFails, RequestFails, Refused
<1>3. CASE Receive \/ StreamEnds
    BY <1>3 DEF Receive, StreamEnds
<1>4. CASE StreamFails \/ WriteFails \/ ReceiveInterrupted
    BY <1>4 DEF StreamFails, WriteFails, ReceiveInterrupted, KeepTemp, GiveUp
<1>5. CASE Replace \/ FileUndeleted \/ DirectoryUndeleted
    BY <1>5 DEF Replace, FileUndeleted, DirectoryUndeleted, KeepTemp
<1>6. CASE Rename \/ RenameFails \/ RenameInterrupted
    BY <1>6 DEF Rename, RenameFails, RenameInterrupted, Complete, GiveUp
<1>7. CASE Retry \/ LastTry \/ Return
    BY <1>7 DEF Retry, LastTry, Return, Again
<1>8. CASE FinalizeRequest
    BY <1>8 DEF FinalizeRequest, Judge
<1>9. CASE UNCHANGED vars
    BY <1>9 DEF vars
<1> QED
    BY <1>1, <1>2, <1>3, <1>4, <1>5, <1>6, <1>7, <1>8, <1>9 DEF Next, Call, FetchData, Ended

\* A request is answered with what is missing, or with the whole file when nothing is.
LEMMA RespondMild ==
    ASSUME TypeOK, Mild, Respond
    PROVE  /\ response' = IF bytes < FileSize THEN Piece(Listed, bytes, FileSize)
                          ELSE Piece(Listed, 0, FileSize)
           /\ bytes <= FileSize => temp' = Prefix(bytes)
<1>1. response' = IF bytes < FileSize THEN Piece(Listed, bytes, FileSize)
                  ELSE Piece(Listed, 0, FileSize)
    BY DEF Mild, Respond, Answer, FileSize
<1>2. ASSUME bytes <= FileSize PROVE temp' = Prefix(bytes)
    <2>1. bytes \in 0..FileSize
        BY <1>2, FileSizeNat DEF TypeOK
    <2>2. CASE named
        BY <2>1, <2>2, PrefixIsFile, FileSizeNat DEF Mild, Whether, Asking, Respond
    <2>3. CASE ~named
        BY <2>3 DEF Mild, Asking, Respond, Prefix
    <2> QED
        BY <2>2, <2>3
<1> QED
    BY <1>1, <1>2

\* What a piece that is received adds to the bytes and to the temporary file.
LEMMA ReceiveMild ==
    ASSUME TypeOK, Mild, Receive
    PROVE  /\ bytes' \in Nat /\ bytes' > bytes
           /\ response.from \in Nat /\ response'.from \in Nat
           /\ response'.version = Listed /\ response'.to = FileSize
           /\ response'.from - response.from = bytes' - bytes
           /\ response'.from <= FileSize
           /\ response.from = bytes /\ temp = Prefix(bytes) => temp' = Prefix(bytes')
<1>1. PICK p \in Cuts, v \in {response.version, supplier} :
        /\ response.from < p /\ p <= response.to
        /\ temp' = Write(temp, Piece(v, response.from, p))
        /\ bytes' = bytes + p - response.from
        /\ response' = [response EXCEPT !.from = p]
    BY DEF Receive
<1>2. p \in Nat /\ response.from \in Nat /\ bytes \in Nat
    BY CutsAssumption DEF TypeOK, Pieces
<1>3. v = Listed /\ response.version = Listed /\ response.to = FileSize
    BY DEF Mild, Receive
<1>4. /\ response'.version = Listed /\ response'.to = FileSize
      /\ response'.from = p
    BY <1>1, <1>3 DEF TypeOK, Pieces
<1>5. response.from = bytes /\ temp = Prefix(bytes) => temp' = Prefix(bytes')
    BY <1>1, <1>2, <1>3, WriteContinues
<1> QED
    BY <1>1, <1>2, <1>3, <1>4, <1>5

\* Whatever streams break off or miss their end, the bytes of the temporary file are
\* the listed ones, or more are counted than the file has.
LEMMA MildStep ==
    ASSUME TypeOK, Decided, Mild, [Next]_vars, disturbed' \subseteq MildFaults
    PROVE  Mild'
<1> USE DEF MildFaults, diskVars, policyVars
<1>1. CASE SupplierChanges \/ TempVanishes \/ OpenFails \/ WriteFails \/ RenameFails
           \/ RenameInterrupted
    BY <1>1 DEF SupplierChanges, TempVanishes, OpenFails, WriteFails, RenameFails,
                RenameInterrupted, Fault
<1>2. CASE Cancel \/ Crash \/ FinalizeRequest
    BY <1>2 DEF Cancel, Crash, HalfDeleted, FinalizeRequest, Mild, Asking, Placing, Whether,
                Decided
<1>3. CASE Respond
    <2>1. pc' = "receive" /\ status' = status /\ bytes' = bytes /\ supplier' = supplier
        BY <1>3 DEF Respond
    <2>2. status # "COMPLETED"
        BY <1>3 DEF Respond, Decided
    <2>3. /\ response'.version = Listed /\ response'.to = FileSize
          /\ response'.from = IF bytes < FileSize THEN bytes ELSE 0
        BY <1>3, RespondMild DEF Piece
    <2>4. \/ bytes > FileSize
          \/ temp' = Prefix(bytes) /\ response'.from = bytes
          \/ temp' = Prefix(bytes) /\ bytes = FileSize /\ response'.from = 0
        BY <1>3, <2>3, RespondMild, FileSizeNat DEF TypeOK
    <2> QED
        BY <2>1, <2>2, <2>3, <2>4 DEF Mild, Asking, Placing
<1>4. CASE RequestFails
    BY <1>4 DEF RequestFails, Mild, Asking, Placing, Whether
<1>5. CASE Refused
    BY <1>5 DEF Refused, Mild, Asking, Placing, Whether
<1>6. CASE Receive
    <2>1. /\ pc = "receive" /\ pc' = pc /\ status' = status /\ supplier' = supplier
        BY <1>6 DEF Receive
    <2>2. status # "COMPLETED"
        BY <2>1 DEF Decided
    <2>3. \/ bytes' > FileSize
          \/ temp' = Prefix(bytes') /\ response'.from = bytes'
        <3>1. CASE bytes > FileSize \/ bytes = FileSize
            BY <1>6, <3>1, ReceiveMild, FileSizeNat DEF TypeOK
        <3>2. CASE temp = Prefix(bytes) /\ response.from = bytes
            BY <1>6, <3>2, ReceiveMild, FileSizeNat DEF TypeOK
        <3> QED
            BY <2>1, <3>1, <3>2 DEF Mild
    <2> QED
        BY <1>6, <2>1, <2>2, <2>3, ReceiveMild DEF Mild, Asking, Placing
<1>7. CASE StreamEnds
    BY <1>7 DEF StreamEnds, Mild, Asking, Placing, Whether, Decided
<1>8. CASE StreamFails
    BY <1>8 DEF StreamFails, KeepTemp, Mild, Asking, Placing, Whether
<1>9. CASE ReceiveInterrupted
    BY <1>9 DEF ReceiveInterrupted, GiveUp, Mild, Asking, Placing
<1>10. CASE Replace \/ FileUndeleted
    BY <1>10 DEF Replace, FileUndeleted, Mild, Asking, Placing, Whether, Decided
<1>14. CASE DirectoryUndeleted
    BY <1>14 DEF DirectoryUndeleted, KeepTemp, Mild, Asking, Placing, Whether
<1>11. CASE Rename
    <2>1. bytes = FileSize => temp = Whole(Listed)
        BY <1>11, PrefixIsWhole, FileSizeNat DEF Mild, Placing, Whether, Rename, Complete
    <2> QED
        BY <1>11, <2>1 DEF Rename, Complete, Mild, Asking, Placing
<1>12. CASE Retry \/ LastTry \/ Return
    BY <1>12 DEF Retry, LastTry, Return, Again, Mild, Asking, Placing, Whether
<1>13. CASE UNCHANGED vars
    BY <1>13 DEF vars, Mild, Asking, Placing, Whether
<1> QED
    BY <1>1, <1>2, <1>3, <1>4, <1>5, <1>6, <1>7, <1>8, <1>9, <1>10, <1>11, <1>12, <1>13,
       <1>14 DEF Next, Call, FetchData, Ended

-----------------------------------------------------------------------------
(* Without any fault but a file that is not deleted                             *)

\* A stream that fails before its end was read leaves bytes to be asked for.
LEMMA SomeMissing ==
    ASSUME TypeOK, Mild, Clean, StreamFails, Spared'
    PROVE  bytes < FileSize
<1>1. ~(response.from = response.to /\ LooksComplete(bytes))
    BY DEF StreamFails, Fault, Spared
<1>2. response.from = bytes /\ response.to = FileSize
    BY DEF StreamFails, Mild, Clean
<1>3. bytes \in Nat /\ bytes <= FileSize
    BY DEF TypeOK, Clean
<1>4. bytes = FileSize => LooksComplete(bytes)
    BY FileSizeNat DEF LooksComplete
<1> QED
    BY <1>1, <1>2, <1>3, <1>4, FileSizeNat

\* What the local path held before is history.
LEMMA BeforeStays == [Next]_vars => before' = before
<1> SUFFICES ASSUME [Next]_vars PROVE before' = before
    OBVIOUS
<1>1. CASE SupplierChanges \/ TempVanishes \/ Cancel \/ Crash \/ FinalizeRequest
    BY <1>1 DEF SupplierChanges, TempVanishes, Cancel, Crash, FinalizeRequest
<1>2. CASE Respond \/ OpenFails \/ RequestFails \/ Refused
    BY <1>2 DEF Respond, OpenFails, RequestFails, Refused
<1>3. CASE Receive \/ StreamEnds \/ StreamFails \/ WriteFails \/ ReceiveInterrupted
    BY <1>3 DEF Receive, StreamEnds, StreamFails, WriteFails, ReceiveInterrupted
<1>4. CASE Replace \/ FileUndeleted \/ DirectoryUndeleted
    BY <1>4 DEF Replace, FileUndeleted, DirectoryUndeleted
<1>5. CASE Rename \/ RenameFails \/ RenameInterrupted
    BY <1>5 DEF Rename, RenameFails, RenameInterrupted, Complete
<1>6. CASE Retry \/ LastTry \/ Return
    BY <1>6 DEF Retry, LastTry, Return
<1>7. CASE UNCHANGED vars
    BY <1>7 DEF vars
<1> QED
    BY <1>1, <1>2, <1>3, <1>4, <1>5, <1>6, <1>7 DEF Next, Call, FetchData, Ended

\* Spared, bytes and temporary file agree, and the old local file stays until the
\* new one is complete.
LEMMA CleanStep ==
    ASSUME Inv, [Next]_vars, Spared'
    PROVE  Clean'
<1> USE DEF diskVars, policyVars
<1>0. Spared /\ TypeOK /\ Decided /\ Mild /\ Clean /\ before' = before
    <2>1. before' = before
        BY BeforeStays
    <2>2. disturbed \subseteq {"undeleted"} /\ Spared
        BY <2>1, DisturbedGrows DEF Spared
    <2> QED
        BY <2>1, <2>2 DEF Inv, MildFaults
<1>1. CASE SupplierChanges \/ TempVanishes \/ OpenFails \/ WriteFails \/ RenameFails
           \/ RenameInterrupted
    BY <1>1 DEF SupplierChanges, TempVanishes, OpenFails, WriteFails, RenameFails,
                RenameInterrupted, Fault, Spared
<1>2. CASE Cancel
    BY <1>0, <1>2 DEF Cancel, Clean, Asking, Placing, Decided
<1>3. CASE Crash
    <2>1. dest' = dest \/ (before = OldDirectory /\ dest' = Remains)
        BY <1>0, <1>3, OldsAssumption
           DEF Crash, HalfDeleted, IsDirectory, Clean, Decided, TypeOK
    <2>2. status # "COMPLETED" \/ dest' = dest
        BY <1>0, <1>3 DEF Crash, HalfDeleted, Decided
    <2>3. outcome = "failure" /\ ~interrupted => dest' = dest
        BY <1>0, <1>3 DEF Crash, HalfDeleted, Decided
    <2> QED
        BY <1>0, <1>3, <2>1, <2>2, <2>3 DEF Crash, Clean, Asking, Placing, Decided
<1>4. CASE FinalizeRequest
    BY <1>0, <1>4 DEF FinalizeRequest, Judge, Clean, Asking, Placing, Decided
<1>5. CASE Respond
    <2>1. response'.from = bytes
        <3>1. bytes < FileSize \/ bytes = 0
            BY <1>0, <1>5 DEF Respond, Mild, Clean, Asking
        <3> QED
            BY <1>0, <1>5, <3>1, RespondMild DEF Piece
    <2>2. temp' = Prefix(bytes)
        BY <1>0, <1>5, RespondMild DEF Clean
    <2>3. pc = "request" /\ status # "COMPLETED"
        BY <1>0, <1>5 DEF Respond, Decided
    <2> QED
        BY <1>0, <1>5, <2>1, <2>2, <2>3 DEF Respond, Clean, Asking, Placing, Decided
<1>6. CASE RequestFails
    BY <1>0, <1>6 DEF RequestFails, Clean, Asking, Placing, Decided
<1>7. CASE Refused
    BY <1>0, <1>7 DEF Refused, Clean, Asking, Placing, Decided
<1>8. CASE Receive
    <2>1. pc = "receive" /\ pc' = pc /\ status # "COMPLETED"
        BY <1>0, <1>8 DEF Receive, Decided
    <2>2. response.from = bytes /\ temp = Prefix(bytes)
        BY <1>0, <2>1, FileSizeNat DEF Mild, Clean, TypeOK
    <2>3. /\ response'.from = bytes' /\ bytes' <= FileSize
          /\ temp' = Prefix(bytes')
        BY <1>0, <1>8, <2>2, ReceiveMild DEF TypeOK
    <2> QED
        BY <1>0, <1>8, <2>1, <2>3 DEF Receive, Clean, Asking, Placing, Decided
<1>9. CASE StreamEnds
    <2>1. bytes = FileSize
        <3>1. ~(response.from < response.to)
            BY <1>9 DEF StreamEnds, Spared
        <3>2. response.from = bytes /\ response.to = FileSize /\ bytes <= FileSize
            BY <1>0, <1>9 DEF StreamEnds, Mild, Clean
        <3> QED
            BY <1>0, <3>1, <3>2, FileSizeNat DEF TypeOK
    <2> QED
        BY <1>0, <1>9, <2>1 DEF StreamEnds, Clean, Asking, Placing, Decided
<1>10. CASE StreamFails
    BY <1>0, <1>10, SomeMissing DEF StreamFails, KeepTemp, Clean, Asking, Placing, Decided
<1>11. CASE ReceiveInterrupted
    BY <1>0, <1>11 DEF ReceiveInterrupted, GiveUp, Clean, Asking, Placing, Decided
<1>12. CASE Replace \/ FileUndeleted
    BY <1>0, <1>12 DEF Replace, FileUndeleted, Clean, Asking, Placing, Decided
<1>16. CASE DirectoryUndeleted
    <2>1. before \in {NoFile, OldFile}
        BY <1>0, <1>16 DEF DirectoryUndeleted, Fault, Spared, TypeOK
    <2>2. dest = before
        BY <1>0, <1>16 DEF DirectoryUndeleted, Clean, Decided
    <2> QED
        BY <1>16, <2>1, <2>2, OldsAssumption DEF DirectoryUndeleted, IsDirectory
<1>13. CASE Rename
    <2>1. temp = Whole(Listed) /\ bytes = FileSize
        BY <1>0, <1>13, PrefixIsWhole, FileSizeNat
           DEF Mild, Clean, Placing, Whether, Rename, Complete, TypeOK
    <2> QED
        BY <1>0, <1>13, <2>1 DEF Rename, Complete, Clean, Asking, Placing, Decided
<1>14. CASE Retry \/ LastTry \/ Return
    BY <1>0, <1>14 DEF Retry, LastTry, Return, Again, Clean, Asking, Placing, Decided
<1>15. CASE UNCHANGED vars
    BY <1>0, <1>15 DEF vars, Clean, Asking, Placing, Decided
<1> QED
    BY <1>1, <1>2, <1>3, <1>4, <1>5, <1>6, <1>7, <1>8, <1>9, <1>10, <1>11, <1>12, <1>13,
       <1>14, <1>15, <1>16 DEF Next, Call, FetchData, Ended

-----------------------------------------------------------------------------
(* The theorems                                                                 *)

\* The invariant holds throughout, for every file, however its streams are broken.
THEOREM TransferInvariance == Spec => []Inv
<1>1. Inv /\ [Next]_vars => Inv'
    <2> SUFFICES ASSUME Inv, [Next]_vars PROVE Inv'
        OBVIOUS
    <2>1. TypeOK' /\ Open' /\ Decided'
        BY TypeStep, DecidedStep DEF Inv
    <2>2. ASSUME disturbed' \subseteq MildFaults PROVE Mild'
        BY <2>2, MildStep, DisturbedGrows DEF Inv
    <2>3. ASSUME Spared' PROVE Clean'
        BY <2>3, CleanStep
    <2> QED
        BY <2>1, <2>2, <2>3 DEF Inv
<1> QED
    BY <1>1, InitInv, PTL DEF Spec

\* Every variable of a transfer keeps its type (TransferTask, ContentCopy).
THEOREM TransferTypes == Spec => []TypeOK
BY TransferInvariance, PTL DEF Inv

\* Undisturbed, the temporary file holds exactly the bytes that were counted, through
\* every broken stream and retry: no resumed download repeats or skips any (ContentCopy,
\* FileHandler).
THEOREM ResumesExactly == Spec => []TempIsPrefix
<1>1. Inv => TempIsPrefix
    BY DEF Inv, Spared, Clean, TempIsPrefix, Prefix
<1> QED
    BY <1>1, TransferInvariance, PTL

\* What the requester reports as received is the listed file, complete, also when
\* truncated streams were taken for complete, compressed ones were read twice or the old one could
\* not be deleted (Requester.finalizeRequest).
THEOREM ReportedIsWhole == Spec => []SuccessIsWhole
<1>1. Inv => SuccessIsWhole
    BY DEF Inv, Decided, Mild, MildFaults, SuccessIsWhole
<1> QED
    BY <1>1, TransferInvariance, PTL

\* A transfer that fails and was not cancelled leaves at the local path what was there,
\* a file that it could not delete included; only a directory that deleteDirectory failed
\* to delete may not be left whole (ContentCopy.createFile deletes for a complete file).
THEOREM FailedKeepsOld == Spec => []FailureKeepsOld
<1>1. Inv => FailureKeepsOld
    BY DEF Inv, Spared, Clean, FailureKeepsOld
<1> QED
    BY <1>1, TransferInvariance, PTL

\* At no time, and so after no crash, is part of a file at the local path, and part of a
\* directory only after a crash (ContentCopy.createFile).
THEOREM PlacedWhole == Spec => []NeverPartial
<1>1. Inv => NeverPartial
    BY DEF Inv, Spared, Clean, NeverPartial
<1> QED
    BY <1>1, TransferInvariance, PTL

-----------------------------------------------------------------------------
(* Every transfer has only so many turns                                        *)

Happened == disturbed \cap Faults

Stage == [request |-> 5, receive |-> 4, replace |-> 3, rename |-> 2, retry |-> 1,
          returned |-> 0, crashed |-> 0]

\* A request is made again at most once for each retry, and once more when the policy
\* finds the thread interrupted.
AttemptsLeft == (MaxRetries - retries) + (IF enabled THEN 1 ELSE 0)

EventsLeft ==
    (MaxFaults - Cardinality(Happened)) + (IF interrupted THEN 0 ELSE 1)
      + (IF outcome = "none" THEN 1 ELSE 0)

\* An attempt takes at most five turns from its request to the next.
TurnsLeft == 5 * AttemptsLeft + Stage[pc] + EventsLeft

\* What has not been read of the answer.
ToRead == response.to - response.from

TurnsInv == Cardinality(Happened) <= MaxFaults /\ response.from <= response.to

\* The faults that happened can be counted.
LEMMA HappenedFinite == IsFiniteSet(Happened) /\ Cardinality(Happened) \in Nat
<1> DEFINE All == {"changed", "reopened", "vanished", "unrenamed", "diskfull", "trailer",
                   "undeleted"}
<1>1. IsFiniteSet(All)
    <2>1. IsFiniteSet({"changed"}) /\ IsFiniteSet({"changed", "reopened"})
        BY FS_EmptySet, FS_AddElement, FS_Singleton
    <2> DEFINE A == {"changed", "reopened", "vanished"}
               B == A \cup {"unrenamed"}
               C == B \cup {"diskfull"}
               D == C \cup {"trailer"}
               E == D \cup {"undeleted"}
    <2>2. IsFiniteSet({"changed", "reopened"} \cup {"vanished"})
        BY <2>1, FS_AddElement
    <2>3. A = {"changed", "reopened"} \cup {"vanished"}
        OBVIOUS
    <2>4. IsFiniteSet(A)
        BY <2>2, <2>3
    <2> HIDE DEF A
    <2>5. IsFiniteSet(B)
        BY <2>4, FS_AddElement
    <2> HIDE DEF B
    <2>6. IsFiniteSet(C)
        BY <2>5, FS_AddElement
    <2> HIDE DEF C
    <2>7. IsFiniteSet(D)
        BY <2>6, FS_AddElement
    <2> HIDE DEF D
    <2>8. IsFiniteSet(E)
        BY <2>7, FS_AddElement
    <2>9. E = All
        BY DEF A, B, C, D
    <2> QED
        BY <2>8, <2>9
<1>2. Happened \subseteq All
    BY FaultsAssumption DEF Happened
<1>3. IsFiniteSet(Happened)
    BY <1>1, <1>2, FS_Subset
<1> QED
    BY <1>3, FS_CardinalityType

\* A fault is one less that may happen.
LEMMA FaultCounts ==
    ASSUME NEW f, Fault(f)
    PROVE  /\ Cardinality(Happened') = Cardinality(Happened) + 1
           /\ Cardinality(Happened') <= MaxFaults
<1>1. f \notin Happened /\ Happened' = Happened \cup {f}
    BY DEF Fault, Happened
<1>2. Cardinality(Happened') = Cardinality(Happened) + 1
    BY <1>1, HappenedFinite, FS_AddElement
<1>3. Cardinality(Happened) < MaxFaults
    BY DEF Fault, Happened
<1> QED
    BY <1>2, <1>3, HappenedFinite, RetriesAssumption

\* No turn is owed, and no byte.
LEMMA LeftNat ==
    ASSUME TypeOK, TurnsInv
    PROVE  /\ AttemptsLeft \in Nat /\ Stage[pc] \in 0..5 /\ EventsLeft \in Nat
           /\ TurnsLeft \in Nat /\ ToRead \in Nat
<1>1. AttemptsLeft \in Nat
    BY RetriesAssumption DEF TypeOK, AttemptsLeft
<1>2. Stage[pc] \in 0..5
    BY DEF TypeOK, Stage
<1>3. EventsLeft \in Nat
    BY HappenedFinite, RetriesAssumption DEF TurnsInv, EventsLeft
<1>4. ToRead \in Nat
    BY DEF TypeOK, TurnsInv, ToRead, Pieces
<1> QED
    BY <1>1, <1>2, <1>3, <1>4 DEF TurnsLeft

\* Faults are only added, one at a time and within their bound.
LEMMA HappenedSteps ==
    ASSUME TurnsInv, [Next]_vars
    PROVE  /\ Cardinality(Happened)' \in Nat
           /\ Cardinality(Happened)' <= MaxFaults
           /\ Cardinality(Happened) <= Cardinality(Happened)'
<1>1. \/ disturbed' = disturbed
      \/ disturbed' = disturbed \cup {"truncated"}
      \/ \E f \in Faults : Fault(f)
    <2>1. CASE SupplierChanges \/ TempVanishes \/ Cancel \/ Crash \/ FinalizeRequest
        BY <2>1 DEF SupplierChanges, TempVanishes, Cancel, Crash, FinalizeRequest, Fault
    <2>2. CASE Respond \/ OpenFails \/ RequestFails \/ Refused
        BY <2>2 DEF Respond, OpenFails, RequestFails, Refused, Fault
    <2>3. CASE Receive \/ StreamEnds \/ StreamFails \/ WriteFails \/ ReceiveInterrupted
        BY <2>3 DEF Receive, StreamEnds, StreamFails, WriteFails, ReceiveInterrupted, Fault
    <2>4. CASE Replace \/ FileUndeleted \/ DirectoryUndeleted
        BY <2>4 DEF Replace, FileUndeleted, DirectoryUndeleted, Fault
    <2>7. CASE Rename \/ RenameFails \/ RenameInterrupted
        BY <2>7 DEF Rename, RenameFails, RenameInterrupted, Fault
    <2>5. CASE Retry \/ LastTry \/ Return
        BY <2>5 DEF Retry, LastTry, Return
    <2>6. CASE UNCHANGED vars
        BY <2>6 DEF vars
    <2> QED
        BY <2>1, <2>2, <2>3, <2>4, <2>5, <2>6, <2>7 DEF Next, Call, FetchData, Ended
<1>2. ASSUME Happened' = Happened
      PROVE  /\ Cardinality(Happened)' \in Nat
             /\ Cardinality(Happened)' <= MaxFaults
             /\ Cardinality(Happened) <= Cardinality(Happened)'
    BY <1>2, HappenedFinite DEF TurnsInv
<1>3. CASE disturbed' = disturbed \/ disturbed' = disturbed \cup {"truncated"}
    BY <1>2, <1>3, FaultsAssumption DEF Happened
<1>4. CASE \E f \in Faults : Fault(f)
    BY <1>4, FaultCounts, HappenedFinite
<1> QED
    BY <1>1, <1>3, <1>4

\* An answer is read from its beginning towards its end (FileHandler.handle,
\* StreamCopier.copy).
LEMMA ReadingStep ==
    ASSUME TypeOK, TurnsInv, [Next]_vars
    PROVE  (response.from <= response.to)'
<1> USE DEF TurnsInv
<1>1. CASE Respond
    <2>1. response'.from <= response'.to
        BY <1>1, VersionsAssumption DEF Respond, Answer, Piece, TypeOK
    <2> QED
        BY <2>1
<1>2. CASE Receive
    BY <1>2, CutsAssumption DEF Receive, TypeOK, Pieces
<1>3. CASE StreamFails \/ WriteFails \/ ReceiveInterrupted \/ DirectoryUndeleted
           \/ Rename \/ RenameFails \/ RenameInterrupted
    <2>1. response' = Nothing
        BY <1>3 DEF StreamFails, WriteFails, ReceiveInterrupted, DirectoryUndeleted, Rename,
                    RenameFails, RenameInterrupted, KeepTemp, GiveUp, Complete
    <2> QED
        BY <2>1 DEF Nothing, Piece
<1>4. CASE SupplierChanges \/ TempVanishes \/ Cancel \/ Crash \/ FinalizeRequest
           \/ OpenFails \/ RequestFails \/ Refused \/ StreamEnds \/ Replace
           \/ FileUndeleted
    BY <1>4 DEF SupplierChanges, TempVanishes, Cancel, Crash, FinalizeRequest, OpenFails,
                RequestFails, Refused, StreamEnds, Replace, FileUndeleted
<1>5. CASE Retry \/ LastTry \/ Return \/ UNCHANGED vars
    BY <1>5 DEF Retry, LastTry, Return, vars
<1> QED
    BY <1>1, <1>2, <1>3, <1>4, <1>5 DEF Next, Call, FetchData, Ended

\* Every step but the reading of a piece takes a turn; a piece that is read is one less
\* to read.
LEMMA TurnsStep ==
    ASSUME TypeOK, TurnsInv, [Next]_vars, TypeOK', TurnsInv'
    PROVE  \/ TurnsLeft' < TurnsLeft
           \/ TurnsLeft' = TurnsLeft /\ ToRead' < ToRead
           \/ UNCHANGED vars
<1> USE DEF policyVars, diskVars
<1>1. /\ AttemptsLeft \in Nat /\ AttemptsLeft' \in Nat
      /\ Stage[pc] \in Nat /\ Stage[pc'] \in Nat
      /\ EventsLeft \in Nat /\ EventsLeft' \in Nat /\ ToRead \in Nat
      /\ TurnsLeft' = 5 * AttemptsLeft' + Stage[pc'] + EventsLeft'
    <2>1. (Stage[pc])' \in 0..5 /\ AttemptsLeft' \in Nat /\ EventsLeft' \in Nat
        <3>1. AttemptsLeft' \in Nat
            <4>1. retries' \in 0..MaxRetries /\ enabled' \in BOOLEAN
                BY DEF TypeOK
            <4>2. \A a \in Nat : \A b \in 0..a, c \in {0, 1} : (a - b) + c \in Nat
                OBVIOUS
            <4>3. AttemptsLeft' = (MaxRetries - retries') + (IF enabled' THEN 1 ELSE 0)
                BY DEF AttemptsLeft
            <4> QED
                BY <4>1, <4>2, <4>3, RetriesAssumption
        <3>2. Stage[pc'] \in 0..5
            BY DEF TypeOK, Stage
        <3>3. Cardinality(Happened)' \in Nat /\ Cardinality(Happened)' <= MaxFaults
            BY HappenedSteps
        <3>4. EventsLeft' \in Nat
            BY <3>3, RetriesAssumption DEF EventsLeft
        <3> QED
            BY <3>1, <3>2, <3>4 DEF Stage
    <2> QED
        BY <2>1, LeftNat DEF TurnsLeft, Stage
<1>2. ASSUME AttemptsLeft' <= AttemptsLeft, Stage[pc'] < Stage[pc], EventsLeft' <= EventsLeft
      PROVE  TurnsLeft' < TurnsLeft
    BY <1>1, <1>2 DEF TurnsLeft
<1>3. ASSUME AttemptsLeft' = AttemptsLeft, Stage[pc'] = Stage[pc], EventsLeft' < EventsLeft
      PROVE  TurnsLeft' < TurnsLeft
    BY <1>1, <1>3 DEF TurnsLeft
<1>4. /\ Cardinality(Happened) \in Nat /\ Cardinality(Happened)' \in Nat
      /\ Cardinality(Happened) <= Cardinality(Happened)' /\ MaxFaults \in Nat
      /\ MaxRetries \in Nat /\ retries \in Nat
    <2>1. Cardinality(Happened)' \in Nat /\ Cardinality(Happened) <= Cardinality(Happened)'
        BY HappenedSteps
    <2>2. MaxRetries \in Nat /\ MaxFaults \in Nat /\ retries \in Nat
        BY RetriesAssumption DEF TypeOK
    <2> QED
        BY <2>1, <2>2, HappenedFinite
<1>5. ASSUME interrupted' = interrupted, outcome' = outcome PROVE EventsLeft' <= EventsLeft
    BY <1>4, <1>5 DEF EventsLeft
<1>6. ASSUME enabled' = enabled \/ ~enabled', retries' = retries
      PROVE  AttemptsLeft' <= AttemptsLeft
    BY <1>4, <1>6 DEF AttemptsLeft
<1>7. CASE Respond \/ OpenFails \/ RequestFails \/ Refused \/ StreamEnds \/ StreamFails
           \/ WriteFails \/ ReceiveInterrupted
    <2>1. /\ \/ pc = "request" /\ pc' \in {"receive", "retry"}
             \/ pc = "receive" /\ pc' \in {"replace", "retry"}
          /\ enabled' = enabled \/ ~enabled'
          /\ UNCHANGED <<interrupted, outcome, retries>>
        BY <1>7 DEF Respond, OpenFails, RequestFails, Refused, StreamEnds, StreamFails,
                    WriteFails, ReceiveInterrupted, KeepTemp, GiveUp
    <2>2. Stage[pc'] < Stage[pc]
        BY <2>1 DEF Stage
    <2> QED
        BY <1>2, <1>5, <1>6, <2>1, <2>2
<1>8. CASE Replace \/ FileUndeleted \/ DirectoryUndeleted \/ Rename \/ RenameFails
           \/ RenameInterrupted \/ Return \/ Crash
    <2>1. /\ enabled' = enabled \/ ~enabled'
          /\ UNCHANGED <<interrupted, outcome, retries>>
        BY <1>8 DEF Replace, FileUndeleted, DirectoryUndeleted, Rename, RenameFails,
                    RenameInterrupted, Return, Crash, Complete, KeepTemp, GiveUp
    <2>2. Stage[pc'] < Stage[pc]
        BY <1>8 DEF Replace, FileUndeleted, DirectoryUndeleted, Rename, RenameFails,
                    RenameInterrupted, Return, Crash, Complete, KeepTemp, GiveUp, Stage, TypeOK
    <2> QED
        BY <1>2, <1>5, <1>6, <2>1, <2>2
<1>9. CASE Retry \/ LastTry
    <2>1. Stage[pc'] = Stage[pc] + 4 /\ EventsLeft' <= EventsLeft
        BY <1>5, <1>9 DEF Retry, LastTry, Again, Stage
    <2>2. AttemptsLeft' = AttemptsLeft - 1
        BY <1>4, <1>9 DEF Retry, LastTry, Again, AttemptsLeft
    <2> QED
        BY <1>1, <2>1, <2>2 DEF TurnsLeft
<1>10. CASE Receive
    <2>1. PICK p \in Cuts : response.from < p /\ p <= response.to
                            /\ response' = [response EXCEPT !.from = p]
        BY <1>10 DEF Receive
    <2>2. ToRead' < ToRead
        BY <2>1, CutsAssumption DEF ToRead, TypeOK, Pieces
    <2>3. TurnsLeft' = TurnsLeft
        BY <1>10 DEF Receive, TurnsLeft, AttemptsLeft, EventsLeft, Happened, Stage
    <2> QED
        BY <2>2, <2>3
<1>11. CASE SupplierChanges \/ TempVanishes
    <2>1. PICK f \in Faults : Fault(f)
        BY <1>11 DEF SupplierChanges, TempVanishes, Fault
    <2>2. UNCHANGED <<pc, interrupted, outcome, enabled, retries>>
        BY <1>11 DEF SupplierChanges, TempVanishes
    <2>3. EventsLeft' < EventsLeft
        BY <1>4, <2>1, <2>2, FaultCounts DEF EventsLeft
    <2> QED
        BY <1>3, <2>2, <2>3 DEF AttemptsLeft
<1>12. CASE Cancel \/ FinalizeRequest
    <2>1. UNCHANGED <<pc, disturbed, enabled, retries>>
        BY <1>12 DEF Cancel, FinalizeRequest
    <2>2. \/ outcome' = outcome /\ ~interrupted /\ interrupted'
          \/ outcome = "none" /\ outcome' # "none" /\ interrupted' = interrupted
        BY <1>12 DEF Cancel, FinalizeRequest, Judge
    <2>3. EventsLeft' < EventsLeft
        BY <1>4, <2>1, <2>2 DEF EventsLeft, Happened
    <2> QED
        BY <1>3, <2>1, <2>3 DEF AttemptsLeft
<1> QED
    BY <1>7, <1>8, <1>9, <1>10, <1>11, <1>12 DEF Next, Call, FetchData, Ended

\* A transfer takes at most five turns for each retry there is time for, twelve more and
\* one for each fault; between two turns it reads only the rest of its answer. So it
\* comes to its end whatever breaks: it never asks for ever, nor reads for ever
\* (TransferTask.call, RetryPolicyLinearTime.execute, StreamCopier.copy).
THEOREM RunsOutOfTurns ==
    Spec => /\ TurnsLeft = 5 * MaxRetries + 12 + MaxFaults
            /\ [](TurnsLeft \in Nat /\ ToRead \in Nat)
            /\ [][\/ TurnsLeft' < TurnsLeft
                  \/ TurnsLeft' = TurnsLeft /\ ToRead' < ToRead]_vars
<1>1. Init => TurnsInv /\ TurnsLeft = 5 * MaxRetries + 12 + MaxFaults
    <2> SUFFICES ASSUME Init PROVE TurnsInv /\ TurnsLeft = 5 * MaxRetries + 12 + MaxFaults
        OBVIOUS
    <2>1. Cardinality(Happened) = 0
        <3>1. Happened = {}
            BY DEF Init, Happened
        <3> QED
            BY <3>1, FS_EmptySet
    <2>2. AttemptsLeft = MaxRetries + 1 /\ EventsLeft = MaxFaults + 2 /\ Stage[pc] = 5
        BY <2>1, RetriesAssumption DEF Init, AttemptsLeft, EventsLeft, Stage
    <2> QED
        BY <2>1, <2>2, RetriesAssumption DEF Init, TurnsInv, TurnsLeft, Nothing, Piece
<1>2. Inv /\ TurnsInv /\ [Next]_vars => TurnsInv'
    BY HappenedSteps, ReadingStep DEF Inv, TurnsInv
<1>3. Inv /\ TurnsInv => TurnsLeft \in Nat /\ ToRead \in Nat
    BY LeftNat DEF Inv
<1>4. Inv /\ TurnsInv /\ Inv' /\ TurnsInv' /\ [Next]_vars
        => [\/ TurnsLeft' < TurnsLeft
            \/ TurnsLeft' = TurnsLeft /\ ToRead' < ToRead]_vars
    BY TurnsStep DEF Inv
<1> QED
    BY <1>1, <1>2, <1>3, <1>4, TransferInvariance, PTL DEF Spec
=============================================================================
