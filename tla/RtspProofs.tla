----------------------------- MODULE RtspProofs -----------------------------
(* For any number of streams, clients and requests: the state stays in its *)
(* types, and frames go to the client that is connected.                   *)
EXTENDS Rtsp, TLAPS

Connected == service \in {"serve", "leave"} /\ conn.open
InUnicast == rtp.at \in {"loop", "pass", "send", "delay"}

(* Whatever can make the RTP task use a socket, be it running, woken or    *)
(* about to be woken, keeps the service task from leaving its client.      *)
RtpInv ==
    /\ service \in {"serve", "leave"} => conn.open
    /\ InUnicast => /\ Connected /\ rtp.started
                    /\ rtp.socket \in {OwnSocket, conn.socket}
    /\ rtp.at = "woken" => Connected
    /\ rtp.tokens > 0 => Connected \/ rtp.at = "ended"
    /\ rtp.tokens <= conn.plays

RtspInv == TypeOK /\ RtpInv

AppType == [at : {"open", "closing", "closed"}, starts : 0 .. MaxStarts]
ServerType == [state : {"INIT", "RUN", "SET_EXIT", "EXIT"}, allow : BOOLEAN,
               starts : {0, 1}]
ConnType == [socket : 0 .. MaxClients, open : BOOLEAN,
             state : {"INIT", "READY", "PLAYING"}, setup : SUBSET Streams,
             nSetup : 0 .. NStreams, cast : {"UDP", "TCP"}, plays : 0 .. MaxPlays]
RtpType == [at : {"idle", "woken", "loop", "pass", "send", "delay", "ended"},
            tokens : 0 .. MaxPlays, started : BOOLEAN,
            socket : 0 .. MaxClients, i : Streams]
QueuesType == [in : SUBSET Streams, out : SUBSET Streams, ready : SUBSET Streams,
               inSema : 0 .. MaxInput, outSema : Nat]
HandleType == [at : {"idle", "get", "fill", "wait"}, stream : Streams]

(* A count stays within its bound.                                         *)
LEMMA UptoBound == \A n \in Nat : Upto(n) \in 0 .. MaxInput
  BY RtspConstants DEF Upto

LEMMA Sizes == /\ NStreams \in Nat /\ 1 \in Streams /\ 0 \in 0 .. NStreams
               /\ MaxClients \in Nat /\ MaxPlays \in Nat /\ MaxStarts \in Nat
               /\ MaxInput \in Nat
  BY RtspConstants DEF Streams

LEMMA InitInv == Init => RtspInv
  BY Sizes, RtspConstants DEF Init, RtspInv, TypeOK, RtpInv, InUnicast, Connected, OwnSocket

(* The application: no task is at work when it starts.                     *)
LEMMA AppStep ==
    ASSUME RtspInv, Start \/ Stop \/ Close \/ Closed
    PROVE  RtspInv'
<1>1. CASE Start
  <2>1. app \in AppType /\ server \in ServerType /\ conn \in ConnType /\ queues \in QueuesType
    BY DEF RtspInv, TypeOK, AppType, ServerType, ConnType, QueuesType
  <2>2. app' \in AppType
    BY <1>1, <2>1, Sizes DEF Start, AppType
  <2>3. server' \in ServerType
    <3>1. server.starts + 1 \in {0, 1}
      BY <1>1 DEF Start, AtRest
    <3>2. server' = [server EXCEPT !.allow = TRUE, !.starts = @ + 1]
      BY <1>1 DEF Start
    <3> QED BY <2>1, <3>1, <3>2 DEF ServerType
  <2>4. conn' \in ConnType
    BY <1>1, <2>1, Sizes DEF Start, ConnType
  <2>5. Upto(queues.inSema + NStreams) \in 0 .. MaxInput
    BY <2>1, UptoBound, Sizes DEF QueuesType
  <2>6. queues' \in QueuesType
    BY <1>1, <2>1, <2>5 DEF Start, QueuesType
  <2>7. TypeOK'
    BY <1>1, <2>2, <2>3, <2>4, <2>6
       DEF Start, RtspInv, TypeOK, AppType, ServerType, ConnType, QueuesType
  <2>8. conn'.open = conn.open /\ conn'.socket = conn.socket /\ conn'.plays = conn.plays
    BY <1>1, <2>1 DEF Start, ConnType
  <2> QED BY <1>1, <2>7, <2>8 DEF Start, RtspInv, RtpInv, InUnicast, Connected
<1>2. CASE Stop \/ Close \/ Closed
  <2>1. /\ app' \in AppType /\ server' \in ServerType
        /\ UNCHANGED <<service, conn, rtp, queues, handle>>
    <3>1. app \in AppType /\ server \in ServerType
      BY DEF RtspInv, TypeOK, AppType, ServerType
    <3>2. CASE Stop
      BY <3>1, <3>2 DEF Stop, AppType, ServerType
    <3>3. CASE Close
      BY <3>1, <3>3 DEF Close, AppType, ServerType
    <3>4. CASE Closed
      BY <3>1, <3>4 DEF Closed, AppType, ServerType
    <3> QED BY <1>2, <3>2, <3>3, <3>4
  <2> QED BY <2>1 DEF RtspInv, TypeOK, AppType, ServerType, RtpInv, InUnicast, Connected
<1> QED BY <1>1, <1>2

(* What concerns the RTP task does not change when only the service does,  *)
(* between the places where no client is connected.                        *)
LEMMA ListenStep ==
    ASSUME RtspInv,
           \/ TakeStart \/ EndService \/ DisabledBeforeWifi \/ WifiReady
           \/ ListenFails \/ WifiLost \/ StopListening
    PROVE  RtspInv'
<1>1. server \in ServerType
  BY DEF RtspInv, TypeOK, ServerType
<1>2. server' \in ServerType
  <2>1. CASE TakeStart
    BY <1>1, <2>1 DEF TakeStart, ServerType
  <2>2. CASE EndService
    BY <1>1, <2>2 DEF EndService, ServerType
  <2>3. CASE ListenFails
    BY <1>1, <2>3 DEF ListenFails, ServerType
  <2> QED BY <1>1, <2>1, <2>2, <2>3
          DEF DisabledBeforeWifi, WifiReady, WifiLost, StopListening
<1>3. /\ service \in {"idle", "wifi", "listen"} /\ service' \in {"idle", "wifi", "listen", "ended"}
      /\ UNCHANGED <<app, conn, rtp, queues, handle>>
  BY DEF Go, TakeStart, EndService, DisabledBeforeWifi, WifiReady, ListenFails, WifiLost,
         StopListening
<1>4. TypeOK'
  BY <1>2, <1>3 DEF RtspInv, TypeOK, ServerType
<1> QED BY <1>3, <1>4 DEF RtspInv, RtpInv, InUnicast, Connected

(* A new client comes only after the RTP task is done with the last.       *)
LEMMA AcceptStep ==
    ASSUME RtspInv, Accept
    PROVE  RtspInv'
<1>1. conn \in ConnType
  BY DEF RtspInv, TypeOK, ConnType
<1>2. conn' \in ConnType
  <2>1. conn.socket + 1 \in 0 .. MaxClients
    BY <1>1, Sizes DEF Accept, ConnType
  <2>2. conn' = [conn EXCEPT !.socket = @ + 1, !.open = TRUE]
    BY DEF Accept
  <2> QED BY <1>1, <2>1, <2>2 DEF ConnType
<1>3. conn'.open = TRUE /\ conn'.plays = conn.plays
  BY <1>1 DEF Accept, ConnType
<1>4. service = "listen" /\ service' = "serve" /\ UNCHANGED <<app, server, rtp, queues, handle>>
  BY DEF Accept, Go
<1>5. TypeOK'
  BY <1>2, <1>4 DEF RtspInv, TypeOK, ConnType
<1>6. ~InUnicast /\ rtp.at # "woken" /\ (rtp.tokens > 0 => rtp.at = "ended")
  BY <1>4 DEF RtspInv, RtpInv, Connected
<1> QED BY <1>3, <1>4, <1>5, <1>6 DEF RtspInv, RtpInv, InUnicast, Connected

(* Requests leave the connection as it is; only PLAY wakes the RTP task.   *)
LEMMA RequestStep ==
    ASSUME RtspInv, Requests \/ StopServing
    PROVE  RtspInv'
<1>1. conn \in ConnType /\ rtp \in RtpType
  BY DEF RtspInv, TypeOK, ConnType, RtpType
<1>2. ASSUME NEW c \in ConnType, c.open = conn.open, c.socket = conn.socket,
             c.plays = conn.plays, Answered(c) \/ Out(c),
             UNCHANGED <<app, server, rtp, queues, handle>>
      PROVE  RtspInv'
  <2>1. service = "serve" /\ service' \in {"serve", "leave"}
    BY <1>2 DEF Answered, Out, Go
  <2>2. conn' \in ConnType
    BY <1>2 DEF Answered, Out, ConnType
  <2>3. conn'.open = conn.open /\ conn'.socket = conn.socket /\ conn'.plays = conn.plays
    BY <1>2 DEF Answered, Out, ConnType
  <2>4. TypeOK'
    BY <1>2, <2>1, <2>2 DEF RtspInv, TypeOK, ConnType
  <2> QED BY <1>2, <2>1, <2>3, <2>4 DEF RtspInv, RtpInv, InUnicast, Connected
<1>3. ASSUME NEW s \in Streams, NEW mode \in {"UDP", "TCP"}, Setup(s, mode)
      PROVE  RtspInv'
  <2> DEFINE c == [conn EXCEPT !.cast = IF s = 1 THEN mode ELSE @]
             d == [c EXCEPT !.state = "READY", !.setup = @ \cup {s},
                            !.nSetup = IF @ < NStreams THEN @ + 1 ELSE @]
  <2>1. c \in ConnType
    BY <1>1 DEF ConnType
  <2>2. c.open = conn.open /\ c.socket = conn.socket /\ c.plays = conn.plays
    BY <1>1 DEF ConnType
  <2>3. (IF c.nSetup < NStreams THEN c.nSetup + 1 ELSE c.nSetup) \in 0 .. NStreams
    BY <2>1, Sizes DEF ConnType
  <2>4. d \in ConnType
    BY <2>1, <2>3 DEF ConnType
  <2>5. d.open = c.open /\ d.socket = c.socket /\ d.plays = c.plays
    BY <2>1 DEF ConnType
  <2>6. Out(c) \/ Answered(d)
    BY <1>3 DEF Setup
  <2>7. UNCHANGED <<app, server, rtp, queues, handle>>
    BY <1>3 DEF Setup
  <2> HIDE DEF c, d
  <2>8. CASE Out(c)
    BY <1>2, <2>1, <2>2, <2>7, <2>8
  <2>9. CASE Answered(d)
    BY <1>2, <2>2, <2>4, <2>5, <2>7, <2>9
  <2> QED BY <2>6, <2>8, <2>9
<1>4. CASE Play
  <2>1. /\ conn.plays < MaxPlays /\ service = "serve"
        /\ UNCHANGED <<app, server, service, queues, handle>>
    BY <1>4 DEF Play, Answered
  <2>2. rtp.tokens <= conn.plays
    BY DEF RtspInv, RtpInv
  <2>3. conn' \in ConnType
    <3>1. conn.plays + 1 \in 0 .. MaxPlays
      BY <1>1, <2>1, Sizes DEF ConnType
    <3>2. conn' = [conn EXCEPT !.state = "PLAYING", !.plays = @ + 1]
      BY <1>4 DEF Play, Answered
    <3> QED BY <1>1, <3>1, <3>2 DEF ConnType
  <2>4. /\ conn'.open = conn.open /\ conn'.socket = conn.socket
        /\ conn'.plays = conn.plays + 1
    BY <1>1, <1>4 DEF Play, Answered, ConnType
  <2>5. rtp.tokens + 1 \in 0 .. MaxPlays /\ rtp.tokens + 1 <= conn.plays + 1
    BY <1>1, <2>1, <2>2, Sizes DEF RtpType, ConnType
  <2>6. rtp' \in RtpType
    BY <1>1, <1>4, <2>5 DEF Play, RtpType
  <2>7. /\ rtp'.at = rtp.at /\ rtp'.started = rtp.started
        /\ rtp'.socket = rtp.socket /\ rtp'.tokens = rtp.tokens + 1
    BY <1>1, <1>4 DEF Play, RtpType
  <2>8. TypeOK'
    BY <2>1, <2>3, <2>6 DEF RtspInv, TypeOK, ConnType, RtpType
  <2> QED BY <2>1, <2>4, <2>5, <2>7, <2>8 DEF RtspInv, RtpInv, InUnicast, Connected
<1>5. CASE Pause \/ InvalidRequest
  <2>1. PICK st \in {"INIT", "READY"} : Answered([conn EXCEPT !.state = st])
    BY <1>5 DEF Pause, InvalidRequest
  <2>2. /\ [conn EXCEPT !.state = st] \in ConnType
        /\ [conn EXCEPT !.state = st].open = conn.open
        /\ [conn EXCEPT !.state = st].socket = conn.socket
        /\ [conn EXCEPT !.state = st].plays = conn.plays
    BY <1>1 DEF ConnType
  <2> QED BY <1>2, <1>5, <2>1, <2>2 DEF Pause, InvalidRequest
<1>6. CASE Leave \/ StopServing
  BY <1>1, <1>2, <1>6 DEF Leave, StopServing
<1> QED BY <1>3, <1>4, <1>5, <1>6 DEF Requests

(* The service task closes the socket when nothing can use it any more.    *)
LEMMA CloseStep ==
    ASSUME RtspInv, CloseClient
    PROVE  RtspInv'
<1>1. conn \in ConnType /\ rtp \in RtpType
  BY DEF RtspInv, TypeOK, ConnType, RtpType
<1>2. conn' \in ConnType
  BY <1>1, Sizes DEF CloseClient, ConnType
<1>3. conn'.plays = conn.plays
  BY <1>1 DEF CloseClient, ConnType
<1>4. service' = "listen" /\ UNCHANGED <<app, server, rtp, queues, handle>>
  BY DEF CloseClient, Go
<1>5. TypeOK'
  BY <1>2, <1>4 DEF RtspInv, TypeOK, ConnType
<1>6. ~InUnicast
  BY DEF RtspInv, RtpInv, CloseClient
<1>7. rtp.at # "woken" /\ (rtp.tokens > 0 => rtp.at = "ended")
  <2>1. rtp.tokens > 0 => rtp.tokens # 0
    BY <1>1 DEF RtpType
  <2> QED BY <1>1, <1>6, <2>1 DEF CloseClient, RtpHasRun, InUnicast, RtpType
<1> QED BY <1>3, <1>4, <1>5, <1>6, <1>7 DEF RtspInv, RtpInv, InUnicast, Connected

(* The RTP task itself: it begins on the socket of the client that is      *)
(* connected and stays Connected until it is done.                         *)
LEMMA NextStreamType ==
    ASSUME rtp \in RtpType
    PROVE  /\ NextStream \in RtpType /\ NextStream.at \in {"loop", "pass"}
           /\ NextStream.started = rtp.started /\ NextStream.socket = rtp.socket
           /\ NextStream.tokens = rtp.tokens
<1>1. CASE rtp.i < NStreams
  <2>1. rtp.i + 1 \in Streams
    BY <1>1, Sizes DEF RtpType, Streams
  <2>2. NextStream = [rtp EXCEPT !.at = "pass", !.i = @ + 1]
    BY <1>1 DEF NextStream
  <2> QED BY <2>1, <2>2 DEF RtpType
<1>2. CASE ~(rtp.i < NStreams)
  <2>1. 1 \in Streams
    BY Sizes
  <2>2. NextStream = [rtp EXCEPT !.at = "loop", !.i = 1]
    BY <1>2 DEF NextStream
  <2> QED BY <2>1, <2>2 DEF RtpType
<1> QED BY <1>1, <1>2

(* What a step inside rtp_service_unicast leaves alone.                    *)
Stays(r) == r.started = rtp.started /\ r.socket = rtp.socket /\ r.tokens = rtp.tokens

LEMMA UnicastStep ==
    ASSUME RtspInv, InUnicast, rtp' \in RtpType, queues' \in QueuesType, Stays(rtp'),
           rtp'.at \in {"loop", "pass", "send", "delay"},
           UNCHANGED <<app, server, service, conn, handle>>
    PROVE  RtspInv'
<1>1. TypeOK'
  BY DEF RtspInv, TypeOK, RtpType, QueuesType
<1> QED BY <1>1 DEF RtspInv, RtpInv, InUnicast, Connected, Stays

LEMMA RtpStep ==
    ASSUME RtspInv, RtpTask
    PROVE  RtspInv'
<1>1. rtp \in RtpType /\ queues \in QueuesType /\ conn \in ConnType
  BY DEF RtspInv, TypeOK, RtpType, QueuesType, ConnType
<1>2. CASE Wake
  <2>1. rtp.tokens > 0 /\ rtp.at = "idle" /\ UNCHANGED <<app, server, service, conn, queues, handle>>
    BY <1>2 DEF Wake
  <2>2. rtp.tokens - 1 \in 0 .. MaxPlays /\ (rtp.tokens <= conn.plays => rtp.tokens - 1 <= conn.plays)
    BY <1>1, <2>1, Sizes DEF RtpType, ConnType
  <2>3. rtp' = [rtp EXCEPT !.at = "woken", !.tokens = @ - 1]
    BY <1>2 DEF Wake
  <2>4. rtp' \in RtpType
    BY <1>1, <2>2, <2>3 DEF RtpType
  <2>5. rtp'.at = "woken" /\ rtp'.tokens = rtp.tokens - 1
    BY <1>1, <2>3 DEF RtpType
  <2>6. TypeOK'
    BY <2>1, <2>4 DEF RtspInv, TypeOK, RtpType
  <2> QED BY <2>1, <2>2, <2>5, <2>6 DEF RtspInv, RtpInv, InUnicast, Connected
<1>3. CASE EndRtp
  <2>1. rtp' \in RtpType /\ rtp'.at = "ended" /\ rtp'.tokens = rtp.tokens
    BY <1>1, <1>3 DEF EndRtp, RtpType
  <2>2. UNCHANGED <<app, server, service, conn, queues, handle>>
    BY <1>3 DEF EndRtp
  <2>3. TypeOK'
    BY <2>1, <2>2 DEF RtspInv, TypeOK, RtpType
  <2> QED BY <2>1, <2>2, <2>3 DEF RtspInv, RtpInv, InUnicast, Connected
<1>4. CASE Begin
  <2>1. (IF conn.cast = "TCP" THEN conn.socket ELSE OwnSocket) \in 0 .. MaxClients
    BY <1>1, Sizes DEF ConnType, OwnSocket
  <2>2. rtp' \in RtpType
    BY <1>1, <1>4, <2>1 DEF Begin, RtpType
  <2>3. /\ rtp'.at = "loop" /\ rtp'.tokens = rtp.tokens /\ rtp'.started = TRUE
        /\ rtp'.socket \in {OwnSocket, conn.socket}
    BY <1>1, <1>4 DEF Begin, RtpType
  <2>4. rtp.at = "woken" /\ UNCHANGED <<app, server, service, conn, queues, handle>>
    BY <1>4 DEF Begin
  <2>5. TypeOK'
    BY <2>2, <2>4 DEF RtspInv, TypeOK, RtpType
  <2> QED BY <2>3, <2>4, <2>5 DEF RtspInv, RtpInv, InUnicast, Connected
<1>5. CASE BeginPass
  <2>1. queues.inSema - 1 \in 0 .. MaxInput
    BY <1>1, <1>5, Sizes DEF BeginPass, QueuesType
  <2>2. queues' \in QueuesType
    BY <1>1, <1>5, <2>1 DEF BeginPass, QueuesType
  <2>3. rtp' \in RtpType /\ rtp'.at = "pass" /\ Stays(rtp')
    BY <1>1, <1>5, Sizes DEF BeginPass, RtpType, Stays
  <2> QED BY <1>5, <2>2, <2>3, UnicastStep DEF BeginPass, InUnicast
<1>6. CASE SkipStream
  BY <1>1, <1>6, NextStreamType, UnicastStep DEF SkipStream, InUnicast, Stays
<1>7. /\ Taken \in QueuesType
      /\ [queues EXCEPT !.ready = @ \ {rtp.i}] \in QueuesType
  BY <1>1 DEF QueuesType, Taken
<1>8. ASSUME NEW q \in QueuesType PROVE PutBack(q) \in QueuesType
  <2>1. q.outSema + 1 \in Nat
    BY DEF QueuesType
  <2>2. q.out \cup {rtp.i} \in SUBSET Streams
    BY <1>1 DEF QueuesType, RtpType
  <2> QED BY <2>1, <2>2 DEF QueuesType, PutBack
<1>9. CASE TakePayload
  <2>1. CASE rtp.i \in conn.setup /\ rtp.i \in queues.ready
    <3>1. rtp' \in RtpType /\ rtp'.at = "send" /\ Stays(rtp')
      BY <1>1, <1>9, <2>1 DEF TakePayload, RtpType, Stays
    <3> QED BY <1>7, <1>9, <2>1, <3>1, UnicastStep DEF TakePayload, InUnicast
  <2>2. CASE ~(rtp.i \in conn.setup /\ rtp.i \in queues.ready)
    <3>1. queues' \in QueuesType /\ rtp' = NextStream
      BY <1>7, <1>8, <1>9, <2>2 DEF TakePayload
    <3> QED BY <1>1, <1>9, <3>1, NextStreamType, UnicastStep DEF TakePayload, InUnicast, Stays
  <2> QED BY <2>1, <2>2
<1>10. CASE Send
  <2>1. queues' \in QueuesType /\ rtp' = NextStream
    BY <1>7, <1>8, <1>10 DEF Send
  <2> QED BY <1>1, <1>10, <2>1, NextStreamType, UnicastStep DEF Send, InUnicast, Stays
<1>11. CASE EndLoop
  <2>1. rtp' \in RtpType /\ rtp'.at = "delay" /\ Stays(rtp')
    BY <1>1, <1>11 DEF EndLoop, RtpType, Stays
  <2> QED BY <1>1, <1>11, <2>1, UnicastStep DEF EndLoop, InUnicast
<1>12. CASE EndDelay
  <2>1. CASE conn.state = "READY"
    <3>1. rtp' \in RtpType /\ rtp'.at = "loop" /\ Stays(rtp')
      BY <1>1, <1>12, <2>1 DEF EndDelay, RtpType, Stays
    <3> QED BY <1>1, <1>12, <3>1, UnicastStep DEF EndDelay, InUnicast
  <2>2. CASE conn.state # "READY"
    <3>1. OwnSocket \in 0 .. MaxClients
      BY Sizes DEF OwnSocket
    <3>2. rtp' \in RtpType /\ rtp'.at = "idle" /\ rtp'.tokens = rtp.tokens
      BY <1>1, <1>12, <2>2, <3>1 DEF EndDelay, RtpType
    <3>3. rtp.at = "delay" /\ UNCHANGED <<app, server, service, conn, queues, handle>>
      BY <1>12 DEF EndDelay
    <3>4. TypeOK'
      BY <3>2, <3>3 DEF RtspInv, TypeOK, RtpType
    <3> QED BY <3>2, <3>3, <3>4 DEF RtspInv, RtpInv, InUnicast, Connected
  <2> QED BY <2>1, <2>2
<1> QED
  BY <1>2, <1>3, <1>4, <1>5, <1>6, <1>9, <1>10, <1>11, <1>12 DEF RtpTask

(* rtsp2_handle only moves payloads.                                       *)
LEMMA HandleStep ==
    ASSUME RtspInv, (\E s \in Streams : Call(s)) \/ HandleSteps
    PROVE  RtspInv'
<1>1. queues \in QueuesType /\ handle \in HandleType
  BY DEF RtspInv, TypeOK, QueuesType, HandleType
<1>2. ASSUME queues' \in QueuesType, handle' \in HandleType,
             UNCHANGED <<app, server, service, conn, rtp>>
      PROVE  RtspInv'
  <2>1. TypeOK'
    BY <1>2 DEF RtspInv, TypeOK, QueuesType, HandleType
  <2> QED BY <1>2, <2>1 DEF RtspInv, RtpInv, InUnicast, Connected
<1>3. ASSUME NEW s \in Streams, Call(s) PROVE RtspInv'
  BY <1>1, <1>2, <1>3 DEF Call, HandleType
<1>4. CASE GetPayload
  <2>1. queues.outSema - 1 \in Nat
    BY <1>1, <1>4 DEF GetPayload, QueuesType
  <2>2. queues' \in QueuesType
    BY <1>1, <1>4, <2>1 DEF GetPayload, QueuesType
  <2>3. handle' \in HandleType
    BY <1>1, <1>4 DEF GetPayload, HandleType
  <2> QED BY <1>2, <1>4, <2>2, <2>3 DEF GetPayload
<1>5. CASE Fill
  <2>1. Upto(queues.inSema + 1) \in 0 .. MaxInput
    BY <1>1, UptoBound, Sizes DEF QueuesType
  <2>2. handle.stream \in Streams
    BY <1>1 DEF HandleType
  <2>3. queues' \in QueuesType
    BY <1>1, <1>5, <2>1, <2>2 DEF Fill, QueuesType
  <2>4. handle' \in HandleType
    BY <1>1, <1>5 DEF Fill, HandleType
  <2> QED BY <1>2, <1>5, <2>3, <2>4 DEF Fill
<1>6. CASE Return
  BY <1>1, <1>2, <1>6, Sizes DEF Return, HandleType
<1> QED BY <1>3, <1>4, <1>5, <1>6 DEF HandleSteps

LEMMA NextInv == RtspInv /\ [Next]_vars => RtspInv'
<1> SUFFICES ASSUME RtspInv, [Next]_vars PROVE RtspInv'
  OBVIOUS
<1>1. CASE UNCHANGED vars
  BY <1>1 DEF vars, RtspInv, TypeOK, RtpInv, InUnicast, Connected
<1>2. CASE Next
  BY <1>2, AppStep, ListenStep, AcceptStep, RequestStep, CloseStep, RtpStep, HandleStep
     DEF Next, ServiceSteps, Surroundings
<1> QED BY <1>1, <1>2

THEOREM InvAlways == Spec => []RtspInv
  BY InitInv, NextInv, PTL DEF Spec

(* Every count, queue and state of the context stays in its type, with any *)
(* number of clients after each other and any number of requests.          *)
THEOREM TypeCorrect == Spec => []TypeOK
<1>1. RtspInv => TypeOK
  BY DEF RtspInv
<1> QED BY InvAlways, <1>1, PTL

(* rtp_service_unicast only sends while the client it serves is connected. *)
THEOREM FramesGoToTheClient == Spec => []SendsToItsClient
<1>1. RtspInv => SendsToItsClient
  BY DEF RtspInv, RtpInv, InUnicast, Connected, SendsToItsClient
<1> QED BY InvAlways, <1>1, PTL
=============================================================================
