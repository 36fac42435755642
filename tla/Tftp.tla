-------------------------------- MODULE Tftp --------------------------------
(***************************************************************************)
(* The TFTP client and server, tftp_client.c and tftp_server.c, at the two *)
(* ends of a network that may lose, delay, reorder and duplicate datagrams *)
(* without bound: what was sent may arrive at any later time, any number   *)
(* of times, or never.  One call of tftp_client_start transfers one file.  *)
(*                                                                         *)
(* A file is its blocks 1 .. NBlocks; the last one is shorter than the     *)
(* others, which is how both ends recognise the end of the file.  Both     *)
(* ends use one socket and one port for everything, so that nothing tells  *)
(* a datagram of this try from one of an earlier try.                      *)
(***************************************************************************)
EXTENDS Integers, Sequences

CONSTANTS
    NBlocks,   \* blocks of the file; the counts of the code have 16 bits
    RetryNum   \* tftp_retry_num, of the client and of the server

ASSUME TftpConstants == NBlocks \in 1 .. 65533 /\ RetryNum \in Nat \ {0}

Empty == 0     \* a DATA datagram without data
Chunk(b) == IF b \in 1 .. NBlocks THEN b ELSE Empty   \* send_handle
IsFull(c) == c \in 1 .. NBlocks - 1                   \* len = BLOCK_SIZE

Datagram == [kind : {"REQ", "DATA", "ACK"}, block : 0 .. NBlocks + 1,
             chunk : 0 .. NBlocks]
Req == [kind |-> "REQ", block |-> 0, chunk |-> Empty]
Data(b, c) == [kind |-> "DATA", block |-> b, chunk |-> c]
Ack(b) == [kind |-> "ACK", block |-> b, chunk |-> Empty]

VARIABLES
    op,         \* tftp_op: "RRQ" gets a file, "WRQ" puts one
    toServer,   \* every datagram sent to the server, and to the client
    toClient,
    client,     \* where tftp_client_start stands, its count, j, retry_count
    server,     \* where tftp_server_start stands, its count, i, len
    got,        \* blocks given to the client's recv_handle in this try
    put         \* blocks given to the server's recv_handle in this session

vars == <<op, toServer, toClient, client, server, got, put>>
clientVars == <<client, got, toServer>>
serverVars == <<server, put, toClient>>

-----------------------------------------------------------------------------
(* The client.                                                             *)

ClientSends(m) == toServer' = toServer \cup {m}

(* exit: of tftp_client_get and tftp_client_send: back to RETRY.           *)
ClientGivesUp ==
    /\ client' = IF client.tries + 1 = RetryNum
                 THEN [client EXCEPT !.at = "failed"]
                 ELSE [client EXCEPT !.at = "start", !.tries = @ + 1]
    /\ UNCHANGED got

(* One more round of the for loop over j, or its end.                      *)
ClientRound ==
    \/ /\ client.j + 1 < RetryNum
       /\ client' = [client EXCEPT !.j = @ + 1]
       /\ UNCHANGED got
    \/ client.j + 1 = RetryNum /\ ClientGivesUp

Request ==
    /\ client.at = "start"
    /\ ClientSends(Req)
    /\ client' = [client EXCEPT !.at = IF op = "RRQ" THEN "get" ELSE "send",
                                !.count = IF op = "RRQ" THEN 1 ELSE 0, !.j = 0]
    /\ got' = <<>>

(* Mutant: the short block is not taken as the end of the file. *)
Mut_SendNext ==
    /\ client.at = "send"
    /\ Ack(client.count) \in toClient
    /\ LET b == client.count + 1 IN
       /\ ClientSends(Data(b, Chunk(b)))
       /\ client' = [client EXCEPT !.count = b, !.j = 0]
    /\ UNCHANGED got

(* tftp_client_send: a right ACK is answered with the next block; after    *)
(* the last one the call returns without waiting for its ACK.              *)
SendNext ==
    /\ client.at = "send"
    /\ Ack(client.count) \in toClient
    /\ LET b == client.count + 1 IN
       /\ ClientSends(Data(b, Chunk(b)))
       /\ client' = IF IsFull(Chunk(b)) THEN [client EXCEPT !.count = b, !.j = 0]
                    ELSE [client EXCEPT !.at = "done", !.count = b]
    /\ UNCHANGED got

(* Any other ACK is answered with the current number and no data at all:   *)
(* the call of send_handle is commented out.                               *)
SendEmpty ==
    /\ client.at = "send"
    /\ \E m \in toClient : m # Ack(client.count)
    /\ ClientSends(Data(client.count, Empty))
    /\ ClientRound

SendTimeout ==
    /\ client.at = "send"
    /\ IF client.count = 0 THEN ClientGivesUp ELSE ClientRound
    /\ UNCHANGED toServer

(* tftp_client_get: a right block is acknowledged and handed over.         *)
GetBlock ==
    /\ client.at = "get"
    /\ \E m \in toClient :
          /\ m.kind = "DATA" /\ m.block = client.count
          /\ got' = Append(got, m.chunk)
          /\ client' = IF IsFull(m.chunk)
                       THEN [client EXCEPT !.count = @ + 1, !.j = 0]
                       ELSE [client EXCEPT !.at = "done"]
    /\ ClientSends(Ack(client.count))

GetOther ==
    /\ client.at = "get"
    /\ \E m \in toClient : m.kind = "DATA" /\ m.block # client.count
    /\ ClientSends(Ack(client.count - 1))
    /\ ClientRound

(* Mutant: the wait is started again without counting the round. *)
Mut_GetTimeout ==
    /\ client.at = "get"
    /\ UNCHANGED <<client, got, toServer>>

GetTimeout ==
    /\ client.at = "get"
    /\ ClientRound
    /\ UNCHANGED toServer

Client ==
    /\ \/ Request \/ SendNext \/ SendEmpty \/ SendTimeout
       \/ GetBlock \/ GetOther \/ GetTimeout
    /\ UNCHANGED <<op, toClient, server, put>>

-----------------------------------------------------------------------------
(* The server.                                                             *)

ServerSends(m) == toClient' = toClient \cup {m}
StartAgain == [server EXCEPT !.at = "idle"]

ServerRound ==
    /\ server' = IF server.i + 1 = RetryNum THEN StartAgain
                 ELSE [server EXCEPT !.i = @ + 1]
    /\ UNCHANGED put

(* A request opens a session: server_recv acknowledges block 0,            *)
(* server_send sends block 1.                                              *)
StartSession ==
    /\ server.at = "idle" /\ Req \in toServer
    /\ server' = [at |-> IF op = "WRQ" THEN "recv" ELSE "send",
                  count |-> 1, i |-> 0, full |-> IsFull(Chunk(1))]
    /\ ServerSends(IF op = "WRQ" THEN Ack(0) ELSE Data(1, Chunk(1)))
    /\ put' = <<>>

(* Anything else ends the server, and so does a request while errno is not *)
(* EAGAIN, which is up to what other tasks' calls left in it.              *)
Stop ==
    /\ server.at = "idle" /\ toServer # {}
    /\ server' = [server EXCEPT !.at = "stopped"]
    /\ UNCHANGED <<put, toClient>>

(* Mutant: the number of the block is not compared with the count. *)
Mut_RecvBlock ==
    /\ server.at = "recv"
    /\ \E m \in toServer :
          /\ m.kind = "DATA"
          /\ put' = Append(put, m.chunk)
          /\ server' = IF IsFull(m.chunk) /\ server.count < NBlocks
                       THEN [server EXCEPT !.count = @ + 1, !.i = 0]
                       ELSE StartAgain
    /\ ServerSends(Ack(server.count))

(* tftp_server_recv.  A timeout goes through the last datagram again, and  *)
(* acknowledges the block before the one awaited once more; before the     *)
(* first datagram the address it compares is not initialised.              *)
RecvBlock ==
    /\ server.at = "recv"
    /\ \E m \in toServer :
          /\ m.kind = "DATA" /\ m.block = server.count
          /\ put' = Append(put, m.chunk)
          /\ server' = IF IsFull(m.chunk)
                       THEN [server EXCEPT !.count = @ + 1, !.i = 0]
                       ELSE StartAgain
    /\ ServerSends(Ack(server.count))

RecvOther ==
    /\ server.at = "recv"
    /\ \E m \in toServer : m.kind # "DATA" \/ m.block # server.count
    /\ ServerSends(Ack(server.count - 1))
    /\ ServerRound

RecvTimeout ==
    /\ server.at = "recv"
    /\ \/ ServerSends(Ack(server.count - 1))
       \/ server.count = 1 /\ UNCHANGED toClient
    /\ ServerRound

(* tftp_server_send.  Whether the block sent last ended the file is kept   *)
(* in len, which a block sent again overwrites.                            *)
SendBlock ==
    /\ server.at = "send" /\ Ack(server.count) \in toServer
    /\ LET b == server.count + 1 IN
       \/ /\ ~server.full
          /\ server' = StartAgain
          /\ UNCHANGED toClient
       \/ /\ server.full
          /\ server' = [server EXCEPT !.count = b, !.i = 0, !.full = IsFull(Chunk(b))]
          /\ ServerSends(Data(b, Chunk(b)))
    /\ UNCHANGED put

(* Mutant: the block sent again takes the data of the block after it. *)
Mut_SendAgain ==
    /\ server.at = "send"
    /\ \E m \in toServer : m # Ack(server.count)
    /\ LET b == server.count - 1 IN
       /\ ServerSends(Data(b, Chunk(b + 1)))
       /\ server' = IF server.i + 1 = RetryNum THEN StartAgain
                    ELSE [server EXCEPT !.i = @ + 1, !.full = IsFull(Chunk(b + 1))]
    /\ UNCHANGED put

SendAgain ==
    /\ server.at = "send"
    /\ \E m \in toServer : m # Ack(server.count)
    /\ LET b == server.count - 1 IN
       /\ ServerSends(Data(b, Chunk(b)))
       /\ server' = IF server.i + 1 = RetryNum THEN StartAgain
                    ELSE [server EXCEPT !.i = @ + 1, !.full = IsFull(Chunk(b))]
    /\ UNCHANGED put

ServeTimeout ==
    /\ server.at = "send"
    /\ ServerRound
    /\ UNCHANGED toClient

Session ==
    /\ \/ RecvBlock \/ RecvOther \/ RecvTimeout
       \/ SendBlock \/ SendAgain \/ ServeTimeout
    /\ UNCHANGED <<op, toServer, client, got>>

Server ==
    \/ Session
    \/ (StartSession \/ Stop) /\ UNCHANGED <<op, toServer, client, got>>

-----------------------------------------------------------------------------
Init ==
    /\ op \in {"RRQ", "WRQ"}
    /\ toServer = {} /\ toClient = {}
    /\ client = [at |-> "start", count |-> 0, j |-> 0, tries |-> 0]
    /\ server = [at |-> "idle", count |-> 1, i |-> 0, full |-> FALSE]
    /\ got = <<>> /\ put = <<>>

Next == Client \/ Server
Spec == Init /\ [][Next]_vars

(* select returns after its timeout at the latest, so that neither task    *)
(* waits for ever in a transfer.  No datagram is promised to arrive.       *)
FairSpec == Spec /\ WF_vars(Client) /\ WF_vars(Session)

-----------------------------------------------------------------------------
(* The counts stay in 0 .. NBlocks + 1: server_send may go one block past  *)
(* the end, nothing goes further.                                          *)
TypeOK ==
    /\ op \in {"RRQ", "WRQ"}
    /\ toServer \subseteq Datagram /\ toClient \subseteq Datagram
    /\ client \in [at : {"start", "get", "send", "done", "failed"},
                   count : 0 .. NBlocks, j : 0 .. RetryNum - 1,
                   tries : 0 .. RetryNum - 1]
    /\ server \in [at : {"idle", "recv", "send", "stopped"},
                   count : 1 .. NBlocks + 1, i : 0 .. RetryNum - 1, full : BOOLEAN]
    /\ got \in Seq(0 .. NBlocks) /\ put \in Seq(0 .. NBlocks)

(* The blocks handed to the application in one try are the blocks of the   *)
(* file from the first one on, none missing, twice or out of place,        *)
(* whatever the network does and whatever is left over from earlier tries; *)
(* a file received by the server may only be cut short, by an empty block. *)
InOrder(s) == \A k \in 1 .. Len(s) : s[k] = k
BlocksInOrder ==
    /\ InOrder(got)
    /\ \A k \in 1 .. Len(put) : put[k] = k \/ (put[k] = Empty /\ k = Len(put))

(* A get that returns 0 has handed over the whole file.                    *)
GetIsWhole ==
    op = "RRQ" /\ client.at = "done" => Len(got) = NBlocks /\ InOrder(got)

(* tftp_client_start returns, and every session of the server comes to its *)
(* end, however many datagrams are lost.                                   *)
TransfersEnd ==
    /\ <>(client.at \in {"done", "failed"})
    /\ []<>(server.at \in {"idle", "stopped"})
=============================================================================
