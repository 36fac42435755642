-------------------------------- MODULE Rtsp --------------------------------
(***************************************************************************)
(* The RTSP/RTP server, rtsp_api.c, as the MMF module module_rtsp2.c uses  *)
(* it.  Four tasks share one rtsp_context: the service task accepts one    *)
(* client at a time and answers its requests, the RTP task sends frames    *)
(* while the client plays, the MMF task brings frames in rtsp2_handle, and *)
(* the application starts, stops and closes the service.  Clients come and *)
(* go and send their requests in any order.                                *)
(*                                                                         *)
(* Streams are numbered from 1 here; each has one payload object, which is *)
(* in its input queue, in its output queue or in the hands of a task.      *)
(* The state is the one after rtsp_open has succeeded.                     *)
(***************************************************************************)
EXTENDS Integers, FiniteSets

CONSTANTS
    NStreams,   \* nb_streams
    MaxClients, MaxPlays, MaxStarts,  \* bounds: connections, PLAYs, rtsp_starts
    MaxInput    \* and tokens of rtp_input_sema, which grow without need

ASSUME RtspConstants == /\ NStreams \in Nat \ {0}
                        /\ MaxClients \in Nat /\ MaxPlays \in Nat /\ MaxStarts \in Nat
                        /\ MaxInput \in Nat \ {0}

Streams == 1 .. NStreams
OwnSocket == 0   \* the UDP socket of rtp_service_unicast; others are connections

VARIABLES
    app,       \* the application: "open", "closing", "closed", and its rtsp_starts
    server,    \* rtsp_server_state, allow_stream and tokens of start_rtsp_sema
    service,   \* where the service task stands
    conn,      \* client_socket, whether it is open, and the client's state,
               \* setup_done, nb_streams_setup; castMode of transport[0]; PLAYs
    rtp,       \* the RTP task: where it stands, rtp_socket, i of its loop,
               \* is_rtp_start and the tokens of start_rtp_sema
    queues,    \* input and output queues, payloads that are RTP_OBJECT_READY,
               \* tokens of rtp_input_sema and rtp_output_sema
    handle     \* rtsp2_handle: where it stands and its stream

vars == <<app, server, service, conn, rtp, queues, handle>>

-----------------------------------------------------------------------------
(* Tokens of rtp_input_sema: one makes the RTP task go over all streams,   *)
(* so that a count beyond the bound only means more passes for nothing.    *)
Upto(n) == IF n < MaxInput THEN n ELSE MaxInput

(* The application.                                                        *)

(* No task is at work for an earlier start: see README, rtsp_stop returns  *)
(* before its service has stopped.                                         *)
AtRest == /\ service = "idle" /\ server.starts = 0
          /\ rtp.at = "idle" /\ rtp.tokens = 0 /\ handle.at # "fill"

(* CMD_RTSP2_SET_STREAMMING ON: rtsp_start empties all queues, then every  *)
(* payload is put into its input queue.                                    *)
Start ==
    /\ app.at = "open" /\ AtRest /\ app.starts < MaxStarts
    /\ app' = [app EXCEPT !.starts = @ + 1]
    /\ server' = [server EXCEPT !.allow = TRUE, !.starts = @ + 1]
    /\ conn' = [conn EXCEPT !.state = "INIT", !.nSetup = 0]
    /\ queues' = [queues EXCEPT !.in = Streams, !.out = {}, !.inSema = Upto(@ + NStreams)]
    /\ UNCHANGED <<service, rtp, handle>>

Stop ==
    /\ app.at = "open" /\ server.allow
    /\ server' = [server EXCEPT !.allow = FALSE]
    /\ UNCHANGED <<app, service, conn, rtp, queues, handle>>

(* rtsp_close_service, up to its loop, and its end.                        *)
Close ==
    /\ app.at = "open"
    /\ app' = [app EXCEPT !.at = "closing"]
    /\ server' = [server EXCEPT !.allow = FALSE, !.state = "SET_EXIT"]
    /\ UNCHANGED <<service, conn, rtp, queues, handle>>

Closed ==
    /\ app.at = "closing" /\ server.state = "EXIT"
    /\ app' = [app EXCEPT !.at = "closed"]
    /\ server' = [server EXCEPT !.state = "INIT"]
    /\ UNCHANGED <<service, conn, rtp, queues, handle>>

-----------------------------------------------------------------------------
(* The service task: rtsp_service_init and rtsp_start_service.             *)

Go(from, to) == service = from /\ service' = to

TakeStart ==
    /\ Go("idle", "wifi") /\ server.starts > 0
    /\ server' = [server EXCEPT !.starts = @ - 1]
    /\ UNCHANGED <<app, conn, rtp, queues, handle>>

EndService ==
    /\ Go("idle", "ended") /\ server.state = "SET_EXIT"
    /\ server' = [server EXCEPT !.state = "EXIT"]
    /\ UNCHANGED <<app, conn, rtp, queues, handle>>

(* The wait for Wi-Fi ends because the service was disabled, or with the   *)
(* listening socket.                                                       *)
DisabledBeforeWifi ==
    /\ Go("wifi", "idle") /\ server.state # "RUN"
    /\ UNCHANGED <<app, server, conn, rtp, queues, handle>>

WifiReady ==
    /\ Go("wifi", "listen")
    /\ UNCHANGED <<app, server, conn, rtp, queues, handle>>

(* No socket to listen on; or Wi-Fi is up as neither station nor AP.       *)
ListenFails ==
    /\ Go("wifi", "idle")
    /\ server' = [server EXCEPT !.allow = FALSE]
    /\ UNCHANGED <<app, conn, rtp, queues, handle>>

Accept ==
    /\ Go("listen", "serve") /\ conn.socket < MaxClients
    /\ conn' = [conn EXCEPT !.socket = @ + 1, !.open = TRUE]
    /\ UNCHANGED <<app, server, rtp, queues, handle>>

WifiLost ==   \* goto Redo
    /\ Go("listen", "wifi")
    /\ UNCHANGED <<app, server, conn, rtp, queues, handle>>

StopListening ==   \* error:
    /\ Go("listen", "idle") /\ ~server.allow
    /\ UNCHANGED <<app, server, conn, rtp, queues, handle>>

(* The request loop: a request is answered and the loop goes on, or it     *)
(* ends in out:.  The loop reads allow_stream before it polls the client,  *)
(* so that a request may still be answered after it was cleared.  Requests *)
(* that change no state are not shown: OPTIONS, DESCRIBE, GET_PARAMETER,   *)
(* interleaved frames, and PLAY out of turn.                               *)
Answered(c) == service = "serve" /\ conn' = c /\ UNCHANGED service
Out(c) == Go("serve", "leave") /\ conn' = [c EXCEPT !.state = "INIT"]

StopServing ==
    /\ ~server.allow /\ Out(conn)
    /\ UNCHANGED <<app, server, rtp, queues, handle>>

(* The connection is lost, a response cannot be sent, no keepalive came,   *)
(* Wi-Fi is gone; TEARDOWN, and PAUSE out of turn.                         *)
Leave ==
    /\ Out(conn)
    /\ UNCHANGED <<app, server, rtp, queues, handle>>

(* SETUP of stream s; parsing it stores the transport at once.             *)
Setup(s, mode) ==
    /\ LET c == [conn EXCEPT !.cast = IF s = 1 THEN mode ELSE @] IN
       \/ Out(c)
       \/ /\ c.state = "INIT" \/ c.nSetup < NStreams
          /\ Answered([c EXCEPT !.state = "READY", !.setup = @ \cup {s},
                                !.nSetup = IF @ < NStreams THEN @ + 1 ELSE @])
    /\ UNCHANGED <<app, server, rtp, queues, handle>>

(* Mutant: the RTP task is woken only if it does not run yet. *)
Mut_Play ==
    /\ conn.state = "READY" /\ conn.plays < MaxPlays
    /\ Answered([conn EXCEPT !.state = "PLAYING", !.plays = @ + 1])
    /\ rtp' = IF rtp.started THEN rtp ELSE [rtp EXCEPT !.tokens = @ + 1]
    /\ UNCHANGED <<app, server, queues, handle>>

Play ==
    /\ conn.state = "READY" /\ conn.plays < MaxPlays
    /\ Answered([conn EXCEPT !.state = "PLAYING", !.plays = @ + 1])
    /\ rtp' = [rtp EXCEPT !.tokens = @ + 1]
    /\ UNCHANGED <<app, server, queues, handle>>

Pause ==
    /\ conn.state = "PLAYING"
    /\ Answered([conn EXCEPT !.state = "READY"])
    /\ UNCHANGED <<app, server, rtp, queues, handle>>

InvalidRequest ==
    /\ Answered([conn EXCEPT !.state = "INIT"])
    /\ UNCHANGED <<app, server, rtp, queues, handle>>

(* The RTP task gets to run within 2 s: it has taken every wake-up, and    *)
(* is not between a wake-up and is_rtp_start = 1.  An assumption on time,  *)
(* not a test in the code; see README for what else it cuts off.           *)
RtpHasRun == rtp.at # "woken" /\ (rtp.at = "idle" => rtp.tokens = 0)

(* Mutant: one delay instead of a loop until the RTP task is done. *)
Mut_CloseClient ==
    /\ Go("leave", "listen")
    /\ RtpHasRun
    /\ conn' = [conn EXCEPT !.open = FALSE, !.setup = {}, !.nSetup = 0]
    /\ UNCHANGED <<app, server, rtp, queues, handle>>

(* do { vTaskDelay(2000); } while (is_rtp_start); then close.              *)
CloseClient ==
    /\ Go("leave", "listen")
    /\ RtpHasRun /\ ~rtp.started
    /\ conn' = [conn EXCEPT !.open = FALSE, !.setup = {}, !.nSetup = 0]
    /\ UNCHANGED <<app, server, rtp, queues, handle>>

ServiceSteps ==
    \/ TakeStart \/ EndService \/ DisabledBeforeWifi \/ StopListening
    \/ StopServing \/ CloseClient
Requests == \/ \E s \in Streams, mode \in {"UDP", "TCP"} : Setup(s, mode)
            \/ Play \/ Pause \/ InvalidRequest \/ Leave
Surroundings == WifiReady \/ ListenFails \/ WifiLost \/ Accept

-----------------------------------------------------------------------------
(* The RTP task: rtp_service_init and rtp_service_unicast.                 *)

Wake ==
    /\ rtp.at = "idle" /\ rtp.tokens > 0
    /\ rtp' = [rtp EXCEPT !.at = "woken", !.tokens = @ - 1]
    /\ UNCHANGED <<app, server, service, conn, queues, handle>>

EndRtp ==
    /\ rtp.at = "idle" /\ server.state # "RUN"
    /\ rtp' = [rtp EXCEPT !.at = "ended"]
    /\ UNCHANGED <<app, server, service, conn, queues, handle>>

Begin ==
    /\ rtp.at = "woken"
    /\ rtp' = [rtp EXCEPT !.at = "loop", !.started = TRUE,
                 !.socket = IF conn.cast = "TCP" THEN conn.socket ELSE OwnSocket]
    /\ UNCHANGED <<app, server, service, conn, queues, handle>>

(* One round of the while loop goes over the streams once for one token.   *)
Streaming == conn.state = "PLAYING" /\ server.allow

BeginPass ==
    /\ rtp.at = "loop" /\ Streaming /\ queues.inSema > 0
    /\ queues' = [queues EXCEPT !.inSema = @ - 1]
    /\ rtp' = [rtp EXCEPT !.at = "pass", !.i = 1]
    /\ UNCHANGED <<app, server, service, conn, handle>>

(* Mutant: i <= nb_streams. *)
Mut_NextStream == IF rtp.i <= NStreams THEN [rtp EXCEPT !.at = "pass", !.i = @ + 1]
                  ELSE [rtp EXCEPT !.at = "loop", !.i = 1]

NextStream == IF rtp.i < NStreams THEN [rtp EXCEPT !.at = "pass", !.i = @ + 1]
              ELSE [rtp EXCEPT !.at = "loop", !.i = 1]

SkipStream ==
    /\ rtp.at = "pass" /\ rtp.i \notin queues.in
    /\ rtp' = NextStream
    /\ UNCHANGED <<app, server, service, conn, queues, handle>>

(* The payload goes to the output queue, sent or not.                      *)
PutBack(q) == [q EXCEPT !.out = @ \cup {rtp.i}, !.outSema = @ + 1]
Taken == [queues EXCEPT !.in = @ \ {rtp.i}]

TakePayload ==
    /\ rtp.at = "pass" /\ rtp.i \in queues.in
    /\ IF rtp.i \in conn.setup /\ rtp.i \in queues.ready
       THEN queues' = Taken /\ rtp' = [rtp EXCEPT !.at = "send"]
       ELSE queues' = PutBack(Taken) /\ rtp' = NextStream
    /\ UNCHANGED <<app, server, service, conn, handle>>

Send ==   \* rtp_object_handler returns
    /\ rtp.at = "send"
    /\ queues' = PutBack([queues EXCEPT !.ready = @ \ {rtp.i}])
    /\ rtp' = NextStream
    /\ UNCHANGED <<app, server, service, conn, handle>>

EndLoop ==
    /\ rtp.at = "loop" /\ ~Streaming
    /\ rtp' = [rtp EXCEPT !.at = "delay"]
    /\ UNCHANGED <<app, server, service, conn, queues, handle>>

(* Mutant: is_rtp_start is not reset. *)
Mut_EndDelay ==
    /\ rtp.at = "delay"
    /\ rtp' = IF conn.state = "READY" THEN [rtp EXCEPT !.at = "loop"]
              ELSE [rtp EXCEPT !.at = "idle", !.socket = OwnSocket]
    /\ UNCHANGED <<app, server, service, conn, queues, handle>>

EndDelay ==   \* restart: while paused, else exit:
    /\ rtp.at = "delay"
    /\ rtp' = IF conn.state = "READY" THEN [rtp EXCEPT !.at = "loop"]
              ELSE [rtp EXCEPT !.at = "idle", !.started = FALSE, !.socket = OwnSocket]
    /\ UNCHANGED <<app, server, service, conn, queues, handle>>

RtpTask == \/ Wake \/ EndRtp \/ Begin \/ BeginPass \/ SkipStream \/ TakePayload
           \/ Send \/ EndLoop \/ EndDelay

-----------------------------------------------------------------------------
(* rtsp2_handle, of RTSP2_NON_BLOCK_TYPE, called by one MMF task.          *)

Call(s) ==
    /\ handle.at = "idle" /\ conn.state = "PLAYING"
    /\ handle' = [at |-> "get", stream |-> s]
    /\ UNCHANGED <<app, server, service, conn, rtp, queues>>

(* rtp_object_out_stream_queue: the semaphore is down whether or not the   *)
(* queue of this stream holds its payload; if not the caller tries again.  *)
GetPayload ==
    /\ handle.at = "get" /\ queues.outSema > 0
    /\ queues' = [queues EXCEPT !.outSema = @ - 1, !.out = @ \ {handle.stream}]
    /\ handle' = IF handle.stream \in queues.out THEN [handle EXCEPT !.at = "fill"]
                 ELSE handle
    /\ UNCHANGED <<app, server, service, conn, rtp>>

Fill ==
    /\ handle.at = "fill"
    /\ queues' = [queues EXCEPT !.ready = @ \cup {handle.stream},
                    !.in = @ \cup {handle.stream}, !.inSema = Upto(@ + 1)]
    /\ handle' = [handle EXCEPT !.at = "wait"]
    /\ UNCHANGED <<app, server, service, conn, rtp>>

Return ==
    /\ handle.at = "wait" /\ handle.stream \in queues.out
    /\ handle' = [at |-> "idle", stream |-> 1]
    /\ UNCHANGED <<app, server, service, conn, rtp, queues>>

HandleSteps == GetPayload \/ Fill \/ Return

-----------------------------------------------------------------------------
Init ==
    /\ app = [at |-> "open", starts |-> 0]
    /\ server = [state |-> "RUN", allow |-> FALSE, starts |-> 0]
    /\ service = "idle"
    /\ conn = [socket |-> 0, open |-> FALSE, state |-> "INIT", setup |-> {},
               nSetup |-> 0, cast |-> "UDP", plays |-> 0]
    /\ rtp = [at |-> "idle", tokens |-> 0, started |-> FALSE, socket |-> OwnSocket, i |-> 1]
    /\ queues = [in |-> {}, out |-> {}, ready |-> {}, inSema |-> 0, outSema |-> 0]
    /\ handle = [at |-> "idle", stream |-> 1]

Next == \/ Start \/ Stop \/ Close \/ Closed
        \/ ServiceSteps \/ Requests \/ Surroundings
        \/ RtpTask
        \/ \E s \in Streams : Call(s)
        \/ HandleSteps

Spec == Init /\ [][Next]_vars

(* Every task runs: its waits end, those on sockets by their timeouts, and *)
(* rtp_object_handler returns.  Nobody has to connect or to ask for        *)
(* anything, and nobody has to start, stop or close the service.           *)
FairSpec == /\ Spec
            /\ WF_vars(Closed) /\ WF_vars(ServiceSteps)
            /\ WF_vars(RtpTask) /\ WF_vars(HandleSteps)

-----------------------------------------------------------------------------
TypeOK ==
    /\ app \in [at : {"open", "closing", "closed"}, starts : 0 .. MaxStarts]
    /\ server \in [state : {"INIT", "RUN", "SET_EXIT", "EXIT"}, allow : BOOLEAN,
                   starts : {0, 1}]
    /\ service \in {"idle", "wifi", "listen", "serve", "leave", "ended"}
    /\ conn \in [socket : 0 .. MaxClients, open : BOOLEAN,
                 state : {"INIT", "READY", "PLAYING"}, setup : SUBSET Streams,
                 nSetup : 0 .. NStreams, cast : {"UDP", "TCP"}, plays : 0 .. MaxPlays]
    /\ rtp \in [at : {"idle", "woken", "loop", "pass", "send", "delay", "ended"},
                tokens : 0 .. MaxPlays, started : BOOLEAN,
                socket : 0 .. MaxClients, i : Streams]
    /\ queues \in [in : SUBSET Streams, out : SUBSET Streams, ready : SUBSET Streams,
                   inSema : 0 .. MaxInput, outSema : Nat]
    /\ handle \in [at : {"idle", "get", "fill", "wait"}, stream : Streams]

(* A frame is only sent while the connection it is meant for is open: the  *)
(* service task does not close the client's socket under the RTP task, nor *)
(* does the RTP task go on with the socket of a client that has left.      *)
SendsToItsClient ==
    rtp.at = "send" => conn.open /\ rtp.socket \in {OwnSocket, conn.socket}

(* A frame brought while a client plays comes back, sent or not, unless    *)
(* the client or the application stops the streaming: no wake-up of the    *)
(* RTP task gets lost, nor do the streams take each other's buffers from   *)
(* the one semaphore that counts them all.                                 *)
HandleReturns ==
    handle.at # "idle" ~> \/ handle.at = "idle" \/ conn.state # "PLAYING"
                          \/ ~server.allow

(* rtsp_close returns, whatever the client and the tasks are doing.        *)
CloseReturns == app.at = "closing" ~> app.at = "closed"
=============================================================================
