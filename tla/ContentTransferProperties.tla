---------------------- MODULE ContentTransferProperties ----------------------
(* The properties of one content transfer, stated over ContentTransfer. What the *)
(* code does not defend itself against is named by the set disturbed: a property *)
(* says under which of these faults it holds.                                    *)
EXTENDS ContentTransfer

\* While nothing interferes, the temporary file holds exactly the bytes that were
\* counted, from the first on, through every broken stream and every retry: a
\* resumed download neither repeats nor skips any (ContentCopy, FileHandler).
TempIsPrefix ==
    disturbed = {} /\ temp # NoFile =>
        temp = IF bytes = 0 THEN <<>> ELSE <<Piece(Listed, 0, bytes)>>

\* A file reported as received is the listed one, complete: also when a truncated
\* stream was taken for complete, a compressed one was read twice, or what was there
\* could not be deleted at once.
SuccessIsWhole ==
    outcome = "success" /\ disturbed \subseteq {"truncated", "trailer", "undeleted"} =>
        dest = Whole(Listed)

\* A transfer that fails and was not cancelled leaves at the local path what was there,
\* also a file it could not delete. Only of a directory that deleteDirectory failed to
\* delete may part be gone, and the retry, which receives the whole file behind the
\* first, may put twice the file there and report a failure (ContentCopy.createFile).
FailureKeepsOld ==
    outcome = "failure" /\ ~interrupted /\ disturbed \subseteq {"undeleted"} =>
        dest = before \/ (before = OldDirectory /\ "undeleted" \in disturbed)

\* At no time, and so after no crash, is there part of a file at the local path:
\* downloads go to the temporary file. Only of a directory part may be left, by a crash
\* while it is deleted (ContentCopy.createFile).
NeverPartial ==
    disturbed = {} =>
        \/ dest \in {NoFile, before, Whole(Listed)}
        \/ before = OldDirectory /\ dest = Remains

\* The call ends, whatever breaks, and the requester learns of it.
Ends == <>(pc = "crashed" \/ (pc = "returned" /\ outcome # "none"))

\* What the comment in finalizeRequest says of a completed transfer: "must set the
\* timestamp on the file now that it exists".
NowItExists == outcome = "success" => dest # NoFile
=============================================================================
