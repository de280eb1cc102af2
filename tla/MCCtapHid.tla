----------------------------- MODULE MCCtapHid -----------------------------
(***************************************************************************)
(* Small instances of CtapHid for TLC.                                     *)
(***************************************************************************)
EXTENDS CtapHid, TLC

Request(command, len) == [command |-> command, len |-> len]

\* With the code's sizes: two packets, the longest message of 129 packets and one more
\* byte; on the broadcast channel CTAPHID_INIT and a message that needs a third packet
\* for its last byte.
CodeRequests ==
    (1 :> {Request("Cbor", 58), Request("Cbor", 7609), Request("Ping", 7610)})
    @@ (9 :> {Request("Init", 8), Request("Cancel", 117)})

\* With reports of 8 bytes.
ShortRequests == [c \in Cids |-> [command : {"Init", "Unknown"}, len : {0, 1, 7}]]

=============================================================================
