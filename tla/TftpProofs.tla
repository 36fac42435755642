----------------------------- MODULE TftpProofs -----------------------------
(* For files of every length and every number of rounds: the counts stay   *)
(* in range, blocks are handed over in order, and a get is whole.          *)
EXTENDS Tftp, TLAPS

(* What is under way is what the protocol of this transfer may have sent.  *)
ClientMsg(m) ==
    \/ m.kind = "DATA" /\ op = "RRQ" /\ m.chunk = Chunk(m.block)
    \/ m.kind = "ACK" /\ op = "WRQ" /\ m.block \in 0 .. NBlocks
ServerMsg(m) ==
    \/ m.kind = "REQ"
    \/ m.kind = "ACK" /\ op = "RRQ" /\ m.block \in 0 .. NBlocks
    \/ /\ m.kind = "DATA" /\ op = "WRQ" /\ m.block \in 0 .. NBlocks
       /\ m.chunk = Chunk(m.block) \/ m.chunk = Empty
MessagesOK == /\ \A m \in toClient : ClientMsg(m)
              /\ \A m \in toServer : ServerMsg(m)

(* A count stands one past what has been handed over.                      *)
ClientOK ==
    /\ InOrder(got)
    /\ client.at = "get" => /\ op = "RRQ" /\ client.count \in 1 .. NBlocks
                            /\ Len(got) = client.count - 1
    /\ client.at = "send" => op = "WRQ" /\ client.count < NBlocks
    /\ GetIsWhole
ServerOK ==
    /\ \A k \in 1 .. Len(put) : put[k] = k \/ (put[k] = Empty /\ k = Len(put))
    /\ server.at = "recv" => /\ op = "WRQ" /\ server.count \in 1 .. NBlocks
                             /\ Len(put) = server.count - 1 /\ InOrder(put)
    /\ server.at = "send" => op = "RRQ" /\ (server.full => server.count \in 1 .. NBlocks)

TftpInv == TypeOK /\ MessagesOK /\ ClientOK /\ ServerOK

ClientType == [at : {"start", "get", "send", "done", "failed"}, count : 0 .. NBlocks,
               j : 0 .. RetryNum - 1, tries : 0 .. RetryNum - 1]
ServerType == [at : {"idle", "recv", "send", "stopped"}, count : 1 .. NBlocks + 1,
               i : 0 .. RetryNum - 1, full : BOOLEAN]

(* A block appended in its place keeps the blocks in order.                *)
LEMMA AppendInOrder ==
    ASSUME NEW s \in Seq(0 .. NBlocks), NEW c \in 0 .. NBlocks,
           InOrder(s), c = Len(s) + 1
    PROVE  InOrder(Append(s, c))
<1>1. Append(s, c) \in Seq(0 .. NBlocks) /\ Len(Append(s, c)) = c
  OBVIOUS
<1>2. ASSUME NEW k \in 1 .. c PROVE Append(s, c)[k] = k
  BY <1>2 DEF InOrder
<1> QED BY <1>1, <1>2 DEF InOrder

LEMMA Sizes ==
    /\ NBlocks \in Nat /\ 1 \in 1 .. NBlocks /\ 0 \in 0 .. NBlocks
    /\ RetryNum \in Nat /\ 0 \in 0 .. RetryNum - 1
  BY TftpConstants

LEMMA Ranges ==
    /\ \A b \in Int : Chunk(b) \in 0 .. NBlocks
    /\ \A b \in Int : IsFull(Chunk(b)) => b \in 1 .. NBlocks - 1
    /\ \A b \in 1 .. NBlocks : Chunk(b) = b /\ (~IsFull(b) => b = NBlocks)
    /\ ~IsFull(Empty)
<1>1. ASSUME NEW b \in Int
      PROVE  Chunk(b) \in 0 .. NBlocks /\ (IsFull(Chunk(b)) => b \in 1 .. NBlocks - 1)
  BY Sizes DEF Chunk, IsFull, Empty
<1>2. ASSUME NEW b \in 1 .. NBlocks
      PROVE  Chunk(b) = b /\ (~IsFull(b) => b = NBlocks)
  BY Sizes DEF Chunk, IsFull
<1>3. ~IsFull(Empty)
  BY Sizes DEF IsFull, Empty
<1> QED BY <1>1, <1>2, <1>3

LEMMA Messages ==
    /\ Req \in Datagram /\ ServerMsg(Req)
    /\ \A b \in 0 .. NBlocks : /\ Ack(b) \in Datagram
                               /\ op = "RRQ" => ServerMsg(Ack(b))
                               /\ op = "WRQ" => ClientMsg(Ack(b))
    /\ \A b \in 0 .. NBlocks + 1 : Data(b, Chunk(b)) \in Datagram
    /\ \A b \in 0 .. NBlocks : /\ Data(b, Empty) \in Datagram
                               /\ op = "WRQ" => ServerMsg(Data(b, Empty))
                               /\ op = "WRQ" => ServerMsg(Data(b, Chunk(b)))
    /\ \A b \in 0 .. NBlocks + 1 : op = "RRQ" => ClientMsg(Data(b, Chunk(b)))
<1>1. 0 \in 0 .. NBlocks + 1 /\ Empty \in 0 .. NBlocks /\ 0 .. NBlocks \subseteq 0 .. NBlocks + 1
  BY Sizes, Ranges DEF Empty
<1>2. Req \in Datagram /\ ServerMsg(Req)
  BY <1>1 DEF Req, Datagram, ServerMsg
<1>3. ASSUME NEW b \in 0 .. NBlocks
      PROVE  /\ Ack(b) \in Datagram
             /\ op = "RRQ" => ServerMsg(Ack(b))
             /\ op = "WRQ" => ClientMsg(Ack(b))
             /\ Data(b, Empty) \in Datagram
             /\ op = "WRQ" => ServerMsg(Data(b, Empty))
             /\ op = "WRQ" => ServerMsg(Data(b, Chunk(b)))
  BY <1>1 DEF Ack, Data, Datagram, ServerMsg, ClientMsg
<1>4. ASSUME NEW b \in 0 .. NBlocks + 1
      PROVE  /\ Data(b, Chunk(b)) \in Datagram
             /\ op = "RRQ" => ClientMsg(Data(b, Chunk(b)))
  BY Sizes, Ranges DEF Data, Datagram, ClientMsg
<1> QED BY <1>2, <1>3, <1>4

(* A datagram sent to either end, or none.                                 *)
LEMMA SentToServer ==
    ASSUME TypeOK, MessagesOK, UNCHANGED <<op, toClient>>,
           NEW m \in Datagram, ServerMsg(m),
           toServer' = toServer \cup {m} \/ toServer' = toServer
    PROVE  /\ toServer' \subseteq Datagram /\ toClient' \subseteq Datagram
           /\ MessagesOK'
  BY DEF TypeOK, MessagesOK, ServerMsg, ClientMsg

LEMMA SentToClient ==
    ASSUME TypeOK, MessagesOK, UNCHANGED <<op, toServer>>,
           NEW m \in Datagram, ClientMsg(m),
           toClient' = toClient \cup {m} \/ toClient' = toClient
    PROVE  /\ toServer' \subseteq Datagram /\ toClient' \subseteq Datagram
           /\ MessagesOK'
  BY DEF TypeOK, MessagesOK, ServerMsg, ClientMsg

LEMMA NothingSent ==
    ASSUME TypeOK, MessagesOK, UNCHANGED <<op, toServer, toClient>>
    PROVE  /\ toServer' \subseteq Datagram /\ toClient' \subseteq Datagram
           /\ MessagesOK'
  BY DEF TypeOK, MessagesOK, ServerMsg, ClientMsg

LEMMA InvInit == Init => TftpInv
  BY Sizes, Ranges DEF Init, TftpInv, TypeOK, MessagesOK, ClientOK, ServerOK, InOrder,
     GetIsWhole

-----------------------------------------------------------------------------
(* A round keeps the transfer where it is or ends it without success.      *)
LEMMA RoundOfClient ==
    ASSUME client \in ClientType, ClientRound \/ ClientGivesUp
    PROVE  /\ client' \in ClientType /\ got' = got
           /\ \/ client'.at \in {"start", "failed"}
              \/ client'.at = client.at /\ client'.count = client.count
<1>1. ASSUME ClientGivesUp
      PROVE  client' \in ClientType /\ got' = got /\ client'.at \in {"start", "failed"}
  <2>1. CASE client.tries + 1 = RetryNum
    BY <1>1, <2>1 DEF ClientGivesUp, ClientType
  <2>2. CASE client.tries + 1 # RetryNum
    <3>1. client.tries + 1 \in 0 .. RetryNum - 1
      BY <2>2, Sizes DEF ClientType
    <3> QED BY <1>1, <2>2, <3>1 DEF ClientGivesUp, ClientType
  <2> QED BY <2>1, <2>2
<1>2. ASSUME client.j + 1 < RetryNum, client' = [client EXCEPT !.j = @ + 1]
      PROVE  client' \in ClientType /\ client'.at = client.at /\ client'.count = client.count
  <2>1. client.j + 1 \in 0 .. RetryNum - 1
    BY <1>2, Sizes DEF ClientType
  <2> QED BY <1>2, <2>1 DEF ClientType
<1> QED BY <1>1, <1>2 DEF ClientRound

(* What a step of the client has to show.                                  *)
LEMMA ClientFrame ==
    ASSUME TftpInv, UNCHANGED <<op, toClient, server, put>>,
           client' \in ClientType, got' \in Seq(0 .. NBlocks),
           toServer' \subseteq Datagram, MessagesOK', ClientOK'
    PROVE  TftpInv'
  BY DEF TftpInv, TypeOK, ClientType, ServerOK, InOrder

LEMMA ClientKeeps ==
    ASSUME TftpInv, op' = op, ClientRound \/ ClientGivesUp
    PROVE  client' \in ClientType /\ got' \in Seq(0 .. NBlocks) /\ ClientOK'
<1>1. client \in ClientType
  BY DEF TftpInv, TypeOK, ClientType
<1>2. /\ client' \in ClientType /\ got' = got
      /\ \/ client'.at \in {"start", "failed"}
         \/ client'.at = client.at /\ client'.count = client.count
  BY <1>1, RoundOfClient
<1>3. got' \in Seq(0 .. NBlocks)
  BY <1>2 DEF TftpInv, TypeOK
<1> QED BY <1>2, <1>3 DEF TftpInv, ClientOK, GetIsWhole, InOrder

LEMMA ClientStep ==
    ASSUME TftpInv, Client
    PROVE  TftpInv'
<1>0. /\ UNCHANGED <<op, toClient, server, put>>
      /\ TypeOK /\ MessagesOK /\ ClientOK
      /\ client \in ClientType /\ got \in Seq(0 .. NBlocks)
  BY DEF Client, TftpInv, TypeOK, ClientType
<1>2. CASE Request
  <2>1. client' \in ClientType /\ got' \in Seq(0 .. NBlocks)
    <3>1. PICK at \in {"get", "send"}, c \in 0 .. NBlocks :
             client' = [client EXCEPT !.at = at, !.count = c, !.j = 0]
      <4>1. CASE op = "RRQ"
        <5>1. 1 \in 0 .. NBlocks
          BY Sizes
        <5>2. client' = [client EXCEPT !.at = "get", !.count = 1, !.j = 0]
          BY <1>2, <4>1 DEF Request
        <5> QED BY <5>1, <5>2
      <4>2. CASE op # "RRQ"
        <5>1. client' = [client EXCEPT !.at = "send", !.count = 0, !.j = 0]
          BY <1>2, <4>2 DEF Request
        <5> QED BY <5>1, Sizes
      <4> QED BY <4>1, <4>2
    <3>2. client' \in ClientType
      BY <1>0, <3>1, Sizes DEF ClientType
    <3>3. got' \in Seq(0 .. NBlocks)
      BY <1>2 DEF Request
    <3> QED BY <3>2, <3>3
  <2>2. ClientOK'
    BY <1>0, <1>2, Sizes, Ranges DEF Request, ClientOK, ClientType, TypeOK, InOrder, GetIsWhole
  <2>3. toServer' \subseteq Datagram /\ MessagesOK'
    BY <1>0, <1>2, Messages, SentToServer DEF Request, ClientSends
  <2> QED BY <1>0, <2>1, <2>2, <2>3, ClientFrame
<1>3. CASE SendNext
  <2> DEFINE b == client.count + 1
  <2>1. /\ client.at = "send" /\ op = "WRQ" /\ b \in 1 .. NBlocks /\ got' = got
        /\ toServer' = toServer \cup {Data(b, Chunk(b))}
        /\ client' = IF IsFull(Chunk(b)) THEN [client EXCEPT !.count = b, !.j = 0]
                     ELSE [client EXCEPT !.at = "done", !.count = b]
    BY <1>0, <1>3, Sizes, Ranges DEF SendNext, ClientOK, ClientType, ClientSends
  <2>2. client' \in ClientType
    <3>1. b \in 0 .. NBlocks
      BY <2>1
    <3> HIDE DEF b
    <3> QED BY <1>0, <2>1, <3>1, Sizes DEF ClientType
  <2>3. ClientOK'
    BY <1>0, <2>1, Sizes, Ranges DEF ClientType, ClientOK, InOrder, GetIsWhole
  <2>4. toServer' \subseteq Datagram /\ MessagesOK'
    <3>1. b \in 0 .. NBlocks /\ b \in 0 .. NBlocks + 1
      BY <2>1, Sizes
    <3> HIDE DEF b
    <3>2. Data(b, Chunk(b)) \in Datagram /\ ServerMsg(Data(b, Chunk(b)))
      BY <2>1, <3>1, Messages
    <3> QED BY <1>0, <2>1, <3>2, SentToServer
  <2> QED BY <1>0, <2>1, <2>2, <2>3, <2>4, ClientFrame
<1>4. CASE SendEmpty
  <2>1. /\ op = "WRQ" /\ client.count \in 0 .. NBlocks /\ ClientRound
        /\ toServer' = toServer \cup {Data(client.count, Empty)}
    BY <1>0, <1>4 DEF SendEmpty, ClientOK, ClientSends, ClientType
  <2>2. toServer' \subseteq Datagram /\ MessagesOK'
    BY <1>0, <2>1, Messages, SentToServer
  <2> QED BY <1>0, <2>1, <2>2, ClientKeeps, ClientFrame
<1>5. CASE SendTimeout
  <2>1. toServer' \subseteq Datagram /\ MessagesOK' /\ (ClientRound \/ ClientGivesUp)
    BY <1>0, <1>5, NothingSent DEF SendTimeout
  <2> QED BY <1>0, <2>1, ClientKeeps, ClientFrame
<1>6. CASE GetBlock
  <2>1. PICK m \in toClient :
           /\ m.kind = "DATA" /\ m.block = client.count
           /\ got' = Append(got, m.chunk)
           /\ client' = IF IsFull(m.chunk)
                        THEN [client EXCEPT !.count = @ + 1, !.j = 0]
                        ELSE [client EXCEPT !.at = "done"]
    BY <1>6 DEF GetBlock
  <2>2. /\ client.at = "get" /\ op = "RRQ" /\ client.count \in 1 .. NBlocks
        /\ Len(got) = client.count - 1 /\ InOrder(got)
        /\ toServer' = toServer \cup {Ack(client.count)}
    BY <1>0, <1>6 DEF GetBlock, ClientOK, ClientSends
  <2>3. m.chunk = client.count
    BY <1>0, <2>1, <2>2, Sizes, Ranges DEF MessagesOK, ClientMsg
  <2>4. /\ got' \in Seq(0 .. NBlocks) /\ InOrder(got') /\ Len(got') = client.count
    BY <1>0, <2>1, <2>2, <2>3, Sizes, Ranges, AppendInOrder
  <2>5. client' \in ClientType
    <3>1. IsFull(m.chunk) => client.count + 1 \in 0 .. NBlocks
      BY <2>2, <2>3, Sizes DEF IsFull
    <3> QED BY <1>0, <2>1, <3>1, Sizes DEF ClientType
  <2>6. ClientOK'
    BY <1>0, <2>1, <2>2, <2>3, <2>4, Sizes, Ranges DEF ClientType, ClientOK, InOrder,
       GetIsWhole, IsFull
  <2>7. toServer' \subseteq Datagram /\ MessagesOK'
    BY <1>0, <2>2, Sizes, Ranges, Messages, SentToServer
  <2> QED BY <1>0, <2>4, <2>5, <2>6, <2>7, ClientFrame
<1>7. CASE GetOther
  <2>1. /\ op = "RRQ" /\ client.count - 1 \in 0 .. NBlocks /\ ClientRound
        /\ toServer' = toServer \cup {Ack(client.count - 1)}
    BY <1>0, <1>7, Sizes, Ranges DEF GetOther, ClientOK, ClientSends
  <2>2. toServer' \subseteq Datagram /\ MessagesOK'
    BY <1>0, <2>1, Messages, SentToServer
  <2> QED BY <1>0, <2>1, <2>2, ClientKeeps, ClientFrame
<1>8. CASE GetTimeout
  <2>1. toServer' \subseteq Datagram /\ MessagesOK' /\ ClientRound
    BY <1>0, <1>8, NothingSent DEF GetTimeout
  <2> QED BY <1>0, <2>1, ClientKeeps, ClientFrame
<1> QED BY <1>2, <1>3, <1>4, <1>5, <1>6, <1>7, <1>8 DEF Client

-----------------------------------------------------------------------------
LEMMA ServerFrame ==
    ASSUME TftpInv, UNCHANGED <<op, toServer, client, got>>,
           server' \in ServerType, put' \in Seq(0 .. NBlocks),
           toClient' \subseteq Datagram, MessagesOK', ServerOK'
    PROVE  TftpInv'
  BY DEF TftpInv, TypeOK, ServerType, ClientOK, GetIsWhole, InOrder

LEMMA StartAgainType ==
    ASSUME server \in ServerType
    PROVE  StartAgain \in ServerType /\ StartAgain.at = "idle"
  BY DEF StartAgain, ServerType

(* A round leaves the session where it is or ends it.                      *)
LEMMA ServerKeeps ==
    ASSUME TftpInv, op' = op, ServerRound
    PROVE  server' \in ServerType /\ put' \in Seq(0 .. NBlocks) /\ ServerOK'
<1>1. server \in ServerType /\ put' = put /\ put \in Seq(0 .. NBlocks)
  BY DEF TftpInv, TypeOK, ServerType, ServerRound
<1>2. CASE server.i + 1 = RetryNum
  BY <1>1, <1>2, StartAgainType DEF ServerRound, TftpInv, ServerOK
<1>3. CASE server.i + 1 # RetryNum
  <2>1. server' = [server EXCEPT !.i = @ + 1]
    BY <1>3 DEF ServerRound
  <2>2. /\ server' \in ServerType /\ server'.at = server.at
        /\ server'.count = server.count /\ server'.full = server.full
    <3>1. server.i + 1 \in 0 .. RetryNum - 1
      BY <1>1, <1>3, Sizes DEF ServerType
    <3> QED BY <1>1, <2>1, <3>1 DEF ServerType
  <2> QED BY <1>1, <2>2 DEF TftpInv, ServerOK, InOrder
<1> QED BY <1>2, <1>3

LEMMA ServerStep ==
    ASSUME TftpInv, Server
    PROVE  TftpInv'
<1>0. /\ UNCHANGED <<op, toServer, client, got>>
      /\ TypeOK /\ MessagesOK /\ ServerOK /\ op \in {"RRQ", "WRQ"}
      /\ server \in ServerType /\ put \in Seq(0 .. NBlocks)
  BY DEF Server, Session, TftpInv, TypeOK, ServerType
<1>2. CASE StartSession
  <2>1. server' \in ServerType /\ put' \in Seq(0 .. NBlocks)
    <3>1. 1 \in 1 .. NBlocks + 1 /\ IsFull(Chunk(1)) \in BOOLEAN
      BY Sizes DEF IsFull
    <3> QED BY <1>0, <1>2, <3>1, Sizes DEF StartSession, ServerType
  <2>2. ServerOK'
    BY <1>0, <1>2, Sizes, Ranges DEF StartSession, ServerOK, InOrder
  <2>3. toClient' \subseteq Datagram /\ MessagesOK'
    <3>1. CASE op = "WRQ"
      BY <1>0, <1>2, <3>1, Messages, Sizes, Ranges, SentToClient DEF StartSession, ServerSends
    <3>2. CASE op = "RRQ"
      <4>1. 1 \in 0 .. NBlocks + 1
        BY Sizes, Ranges
      <4> QED BY <1>0, <1>2, <3>2, <4>1, Messages, SentToClient
                 DEF StartSession, ServerSends
    <3> QED BY <1>0, <3>1, <3>2
  <2> QED BY <1>0, <2>1, <2>2, <2>3, ServerFrame
<1>3. CASE Stop
  <2>1. server' \in ServerType /\ server'.at = "stopped" /\ put' = put
    BY <1>0, <1>3 DEF Stop, ServerType
  <2>2. ServerOK'
    BY <1>0, <2>1 DEF ServerOK
  <2>3. toClient' \subseteq Datagram /\ MessagesOK'
    BY <1>0, <1>3, NothingSent DEF Stop
  <2> QED BY <1>0, <2>1, <2>2, <2>3, ServerFrame
<1>4. CASE RecvBlock
  <2>1. PICK m \in toServer :
           /\ m.kind = "DATA" /\ m.block = server.count
           /\ put' = Append(put, m.chunk)
           /\ server' = IF IsFull(m.chunk)
                        THEN [server EXCEPT !.count = @ + 1, !.i = 0]
                        ELSE StartAgain
    BY <1>4 DEF RecvBlock
  <2>2. /\ server.at = "recv" /\ op = "WRQ" /\ server.count \in 1 .. NBlocks
        /\ Len(put) = server.count - 1 /\ InOrder(put)
        /\ toClient' = toClient \cup {Ack(server.count)}
    BY <1>0, <1>4 DEF RecvBlock, ServerOK, ServerSends
  <2>3. m.chunk = server.count \/ m.chunk = Empty
    BY <1>0, <2>1, <2>2, Sizes, Ranges DEF MessagesOK, ServerMsg
  <2>4. /\ put' \in Seq(0 .. NBlocks) /\ Len(put') = server.count
        /\ put' = Append(put, m.chunk)
    BY <1>0, <2>1, <2>2, <2>3, Sizes, Ranges DEF Empty
  <2>5. server' \in ServerType
    <3>1. server.count + 1 \in 1 .. NBlocks + 1
      BY <2>2, Sizes
    <3> QED BY <1>0, <2>1, <3>1, StartAgainType, Sizes DEF ServerType
  <2>6. toClient' \subseteq Datagram /\ MessagesOK'
    BY <1>0, <2>2, Messages, Sizes, Ranges, SentToClient
  <2>7. ServerOK'
    <3>1. CASE m.chunk = server.count
      <4>1. InOrder(put')
        <5>1. server.count \in 0 .. NBlocks /\ server.count = Len(put) + 1
          BY <1>0, <2>2
        <5> QED BY <1>0, <2>2, <2>4, <3>1, <5>1, AppendInOrder
      <4>2. server'.at = "recv" => server'.count = server.count + 1 /\ server'.count <= NBlocks
        <5>1. CASE IsFull(m.chunk)
          <6>1. server.count + 1 <= NBlocks
            BY <2>2, <3>1, <5>1, Sizes DEF IsFull
          <6> QED BY <1>0, <2>1, <5>1, <6>1 DEF ServerType
        <5>2. CASE ~IsFull(m.chunk)
          BY <1>0, <2>1, <5>2, StartAgainType
        <5> QED BY <5>1, <5>2
      <4>3. server'.at # "send"
        BY <1>0, <2>1, <2>2, StartAgainType DEF ServerType
      <4>4. \A k \in 1 .. Len(put') : put'[k] = k
        BY <4>1 DEF InOrder
      <4>5. server'.at = "recv" => /\ server'.count \in 1 .. NBlocks
                                   /\ Len(put') = server'.count - 1
        BY <2>2, <2>4, <4>2, Sizes
      <4> QED BY <1>0, <2>2, <4>1, <4>3, <4>4, <4>5 DEF ServerOK, InOrder
    <3>2. CASE m.chunk = Empty
      <4>1. server'.at = "idle"
        BY <1>0, <2>1, <3>2, StartAgainType, Sizes, Ranges
      <4>2. ASSUME NEW k \in 1 .. Len(put')
            PROVE  put'[k] = k \/ (put'[k] = Empty /\ k = Len(put'))
        <5>1. CASE k = Len(put')
          BY <1>0, <2>2, <2>4, <3>2, <5>1
        <5>2. CASE k # Len(put')
          BY <1>0, <2>2, <2>4, <5>2 DEF InOrder
        <5> QED BY <5>1, <5>2
      <4> QED BY <4>1, <4>2 DEF ServerOK
    <3> QED BY <2>3, <3>1, <3>2
  <2> QED BY <1>0, <2>4, <2>5, <2>6, <2>7, ServerFrame
<1>5. CASE RecvOther
  <2>1. /\ op = "WRQ" /\ server.count - 1 \in 0 .. NBlocks /\ ServerRound
        /\ toClient' = toClient \cup {Ack(server.count - 1)}
    BY <1>0, <1>5, Sizes, Ranges DEF RecvOther, ServerOK, ServerSends
  <2>2. toClient' \subseteq Datagram /\ MessagesOK'
    BY <1>0, <2>1, Messages, SentToClient
  <2> QED BY <1>0, <2>1, <2>2, ServerKeeps, ServerFrame
<1>6. CASE RecvTimeout
  <2>1. /\ op = "WRQ" /\ server.count - 1 \in 0 .. NBlocks /\ ServerRound
        /\ \/ toClient' = toClient \cup {Ack(server.count - 1)}
           \/ toClient' = toClient
    BY <1>0, <1>6, Sizes, Ranges DEF RecvTimeout, ServerOK, ServerSends
  <2>2. toClient' \subseteq Datagram /\ MessagesOK'
    BY <1>0, <2>1, Messages, SentToClient
  <2> QED BY <1>0, <2>1, <2>2, ServerKeeps, ServerFrame
<1>7. CASE SendBlock
  <2>1. op = "RRQ" /\ server.at = "send" /\ put' = put
    BY <1>0, <1>7 DEF SendBlock, ServerOK
  <2>2. CASE server' = StartAgain /\ UNCHANGED toClient
    <3>1. toClient' \subseteq Datagram /\ MessagesOK'
      BY <1>0, <2>2, NothingSent
    <3>2. ServerOK'
      BY <1>0, <2>1, <2>2, StartAgainType DEF ServerOK
    <3> QED BY <1>0, <2>1, <2>2, <3>1, <3>2, StartAgainType, ServerFrame
  <2>3. CASE server.full /\ ~(server' = StartAgain /\ UNCHANGED toClient)
    <3> DEFINE b == server.count + 1
    <3>1. /\ b \in 1 .. NBlocks + 1 /\ b \in 0 .. NBlocks + 1
          /\ server' = [server EXCEPT !.count = b, !.i = 0, !.full = IsFull(Chunk(b))]
          /\ toClient' = toClient \cup {Data(b, Chunk(b))}
      BY <1>0, <1>7, <2>1, <2>3, Sizes, Ranges DEF SendBlock, ServerSends, ServerOK
    <3>2. IsFull(Chunk(b)) \in BOOLEAN
      BY DEF IsFull
    <3>3. /\ server' \in ServerType /\ server'.at = "send"
          /\ server'.count = b /\ server'.full = IsFull(Chunk(b))
      BY <1>0, <2>1, <3>1, <3>2, Sizes, Ranges DEF ServerType
    <3>4. ServerOK'
      BY <1>0, <2>1, <3>1, <3>3, Sizes, Ranges DEF ServerOK
    <3>5. toClient' \subseteq Datagram /\ MessagesOK'
      BY <1>0, <2>1, <3>1, Messages, SentToClient
    <3> QED BY <1>0, <2>1, <3>3, <3>4, <3>5, ServerFrame
  <2> QED BY <1>7, <2>2, <2>3 DEF SendBlock
<1>8. CASE SendAgain
  <2> DEFINE b == server.count - 1
  <2>1. /\ op = "RRQ" /\ server.at = "send" /\ put' = put /\ b \in 0 .. NBlocks + 1
        /\ b \in 0 .. NBlocks
        /\ toClient' = toClient \cup {Data(b, Chunk(b))}
    BY <1>0, <1>8, Sizes, Ranges DEF SendAgain, ServerOK, ServerSends, ServerType
  <2>2. toClient' \subseteq Datagram /\ MessagesOK'
    BY <1>0, <2>1, Messages, SentToClient
  <2>3. CASE server' = StartAgain
    BY <1>0, <2>1, <2>2, <2>3, StartAgainType, ServerFrame DEF ServerOK
  <2>4. CASE server.i + 1 # RetryNum
    <3>1. server' = [server EXCEPT !.i = @ + 1, !.full = IsFull(Chunk(b))]
      BY <1>8, <2>4 DEF SendAgain
    <3>2. IsFull(Chunk(b)) \in BOOLEAN
      BY DEF IsFull
    <3>3. /\ server' \in ServerType /\ server'.at = "send"
          /\ server'.count = server.count /\ server'.full = IsFull(Chunk(b))
      <4>1. server.i + 1 \in 0 .. RetryNum - 1
        BY <1>0, <2>4, Sizes DEF ServerType
      <4> HIDE DEF b
      <4> QED BY <1>0, <2>1, <3>1, <3>2, <4>1 DEF ServerType
    <3>4. ServerOK'
      BY <1>0, <2>1, <3>3, Sizes, Ranges DEF ServerOK, ServerType
    <3> QED BY <1>0, <2>1, <2>2, <3>3, <3>4, ServerFrame
  <2> QED BY <1>8, <2>3, <2>4 DEF SendAgain
<1>9. CASE ServeTimeout
  <2>1. toClient' \subseteq Datagram /\ MessagesOK' /\ ServerRound
    BY <1>0, <1>9, NothingSent DEF ServeTimeout
  <2> QED BY <1>0, <2>1, ServerKeeps, ServerFrame
<1> QED BY <1>2, <1>3, <1>4, <1>5, <1>6, <1>7, <1>8, <1>9 DEF Server, Session

-----------------------------------------------------------------------------
LEMMA InvStep == TftpInv /\ [Next]_vars => TftpInv'
<1> SUFFICES ASSUME TftpInv, [Next]_vars PROVE TftpInv'
  OBVIOUS
<1>1. CASE Client
  BY <1>1, ClientStep
<1>2. CASE Server
  BY <1>2, ServerStep
<1>3. CASE UNCHANGED vars
  BY <1>3 DEF vars, TftpInv, TypeOK, MessagesOK, ClientMsg, ServerMsg, ClientOK, ServerOK,
     InOrder, GetIsWhole
<1> QED BY <1>1, <1>2, <1>3 DEF Next

THEOREM InvAlways == Spec => []TftpInv
  BY InvInit, InvStep, PTL DEF Spec

(* The counts, the rounds and every datagram keep their ranges: neither    *)
(* end goes further than one block past the end of the file.               *)
THEOREM TypeCorrect == Spec => []TypeOK
<1>1. TftpInv => TypeOK
  BY DEF TftpInv
<1> QED BY <1>1, InvAlways, PTL

(* recv_handle is given the blocks of the file in order, none missing and  *)
(* none twice, by either end, under every loss, delay and duplication; a   *)
(* put may be cut short by an empty block, and by nothing else.            *)
THEOREM HandedOverInOrder == Spec => []BlocksInOrder
<1>1. TftpInv => BlocksInOrder
  BY DEF TftpInv, BlocksInOrder, ClientOK, ServerOK
<1> QED BY <1>1, InvAlways, PTL

(* tftp_client_start returns 0 for a get only once recv_handle has been    *)
(* given every block of the file.                                          *)
THEOREM GetsWholeFile == Spec => []GetIsWhole
<1>1. TftpInv => GetIsWhole
  BY DEF TftpInv, ClientOK
<1> QED BY <1>1, InvAlways, PTL
=============================================================================
