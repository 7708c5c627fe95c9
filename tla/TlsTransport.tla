---------------------------- MODULE TlsTransport ----------------------------
(***************************************************************************)
(* mqtt_client/tls_transport.c: one tls_conn_t, from tls_connect_common to *)
(* tls_close, between the main loop and the lwIP callbacks.                *)
(*                                                                         *)
(* The callbacks (on_connected, on_recv, on_err) run in the background     *)
(* interrupt of the lwIP port.  They preempt the main loop between any two *)
(* of its accesses, except where it holds the lwIP lock, and run to their  *)
(* end: each is one step.  A section of the main loop under the lock is    *)
(* one step too; unlocked accesses to the shared structure are steps of    *)
(* their own.                                                              *)
(*                                                                         *)
(* wolfSSL is external: an operation (connect, read, write, shutdown) is a *)
(* script of calls to wssl_send and wssl_recv followed by a return.  Bytes *)
(* are units; what the ring does with them is module RxRing.  A waiting    *)
(* loop counts time in units of its sleep, up to its deadline.             *)
(***************************************************************************)
EXTENDS Integers, Sequences

CONSTANTS HsScript,    \* the calls of an undisturbed handshake
          ConnErrs,    \* the err lwIP passes to on_connected: "ok", by its contract
          RingCap,     \* units the receive ring holds
          MaxUnits,    \* bound: units that arrive during a handshake
          PollLimit    \* deadline of a waiting loop, in units of waiting

ASSUME TlsTransportAssumption ==
    /\ HsScript \in Seq({"send", "recv"})
    /\ RingCap \in Nat
    /\ MaxUnits \in Nat
    /\ PollLimit \in Nat

VARIABLES
    pc,             \* where the main loop is
    op,             \* the wolfSSL operation in progress
    script,         \* the I/O calls it still makes
    bad,            \* it has failed and will return an error
    waited,         \* time spent in the current waiting loop
    step,           \* the next row of SetupSteps
    conn,           \* the tls_conn_t is allocated
    pcb,            \* conn->pcb is not NULL
    tcp_connected, tcp_error, remote_closed, io_timed_out, in_handshake,
    ssl_ctx, ssl,   \* these wolfSSL objects exist
    ring,           \* units in conn->rx
    hs_tx_calls, hs_rx_calls, hs_net_wait_us,
    lw,             \* the PCB as lwIP has it
    callbacks,      \* lwIP holds our callbacks with arg = conn
    peerLeft,       \* units that may still arrive while in_handshake
    mem_stage,      \* runtime_memory's current_stage
    result,         \* tls_attempt_result_t
    sendCalls,      \* history: calls of wssl_send in this handshake
    blocked,        \* history: time wssl_recv waited in this handshake
    lastRead,       \* history: how the last wssl_recv ended
    nullCall        \* history: lwIP was called with a NULL PCB

main    == <<pc, op, script, bad, waited, step>>
flags   == <<tcp_connected, tcp_error, remote_closed>>
session == <<io_timed_out, in_handshake, ssl_ctx, ssl>>
counts  == <<hs_tx_calls, hs_rx_calls, hs_net_wait_us>>
net     == <<lw, callbacks, peerLeft>>
history == <<sendCalls, blocked, lastRead, nullCall>>
vars == <<main, conn, pcb, flags, session, ring, counts, net, mem_stage, result, history>>

Stages == {"dns", "tcp", "tls_context", "certificate", "private_key", "key_share",
           "tls_handshake"}
Errors == {"allocation", "timeout", "lwip", "ssl"}

NoFailure == [stage |-> "none", error |-> "ok", timed_out |-> FALSE]

-----------------------------------------------------------------------------
(* lwIP callbacks. *)

on_connected(err) ==
    /\ callbacks /\ lw = "connecting"
    /\ \/ /\ err = "ok"
          /\ tcp_connected' = TRUE
          /\ lw' = "open"
          /\ UNCHANGED tcp_error
       \/ /\ err # "ok"
          /\ tcp_error' = TRUE
          /\ lw' = "bound"
          /\ UNCHANGED tcp_connected
    /\ UNCHANGED <<main, conn, pcb, remote_closed, session, ring, counts, callbacks,
                   peerLeft, mem_stage, result, history>>

rx_push == IF ring < RingCap THEN ring + 1 ELSE ring

\* A unit of data; the ring drops what it has no room for.  Only a handshake, where the
\* columns count, bounds how much arrives: outside of it the peer may send for ever.
on_recv ==
    /\ callbacks /\ lw = "open" /\ ~remote_closed
    /\ in_handshake => peerLeft > 0
    /\ ring' = rx_push
    /\ peerLeft' = IF in_handshake THEN peerLeft - 1 ELSE peerLeft
    /\ UNCHANGED <<main, conn, pcb, flags, session, counts, lw, callbacks, mem_stage,
                   result, history>>

\* on_recv without a pbuf: the peer has closed its side.
on_recv_closed ==
    /\ callbacks /\ lw = "open" /\ ~remote_closed
    /\ remote_closed' = TRUE
    /\ UNCHANGED <<main, conn, pcb, tcp_connected, tcp_error, session, ring, counts, net,
                   mem_stage, result, history>>

KeepPcb == UNCHANGED pcb    \* mutation: on_err only sets the flag
ForgetPcb == pcb' = FALSE

\* lwIP has freed the PCB before it calls on_err.
on_err ==
    /\ callbacks /\ lw \in {"connecting", "open"}
    /\ tcp_error' = TRUE
    /\ ForgetPcb
    /\ lw' = "none" /\ callbacks' = FALSE
    /\ UNCHANGED <<main, conn, tcp_connected, remote_closed, session, ring, counts,
                   peerLeft, mem_stage, result, history>>

Callback ==
    /\ pc # "halted"
    /\ (\E err \in ConnErrs : on_connected(err)) \/ on_recv \/ on_recv_closed \/ on_err

-----------------------------------------------------------------------------
(* tls_connect_common up to the handshake. *)

\* Mutation: the caller's timed_out does not reach the result.
connect_failed_untimed(stage, error, timed_out) ==
    /\ result' = [stage |-> stage, error |-> error, timed_out |-> FALSE]
    /\ pc' = "close"

\* connect_failed: the result is captured, then tls_close runs.
connect_failed(stage, error, timed_out) ==
    /\ result' = [stage |-> stage, error |-> error, timed_out |-> timed_out]
    /\ pc' = "close"

\* memset of the result and calloc of the connection.
Start ==
    /\ pc = "idle"
    /\ mem_stage' = "dns"
    /\ \/ /\ conn' = TRUE
          /\ result' = NoFailure
          /\ pc' = "resolve"
       \/ /\ result' = [stage |-> "dns", error |-> "allocation", timed_out |-> FALSE]
          /\ UNCHANGED <<conn, pc>>
    /\ pcb' = FALSE
    /\ tcp_connected' = FALSE /\ tcp_error' = FALSE /\ remote_closed' = FALSE
    /\ io_timed_out' = FALSE /\ in_handshake' = FALSE /\ ssl_ctx' = FALSE /\ ssl' = FALSE
    /\ ring' = 0
    /\ hs_tx_calls' = 0 /\ hs_rx_calls' = 0 /\ hs_net_wait_us' = 0
    /\ lw' = "none" /\ peerLeft' = MaxUnits
    /\ sendCalls' = 0 /\ blocked' = 0 /\ lastRead' = "none"
    /\ UNCHANGED <<op, script, bad, waited, step, callbacks, nullCall>>

\* How resolve_host fails, as error code and timed-out flag: the call or the answer is an
\* error, or the deadline passes (its interleavings with dns_cb are in PlainTransport).
resolve_host(error, timed_out) ==
    \/ error = "lwip" /\ ~timed_out
    \/ error = "timeout" /\ timed_out

Resolve ==
    /\ pc = "resolve"
    /\ \/ pc' = "open" /\ UNCHANGED result
       \/ \E error \in {"lwip", "timeout"}, timed_out \in BOOLEAN :
             resolve_host(error, timed_out) /\ connect_failed("dns", error, timed_out)
    /\ UNCHANGED <<op, script, bad, waited, step, conn, pcb, flags, session, ring, counts, net,
                   mem_stage, history>>

\* The locked section that creates the PCB, registers the callbacks and
\* starts the TCP handshake.
OpenTcp ==
    /\ pc = "open"
    /\ mem_stage' = "tcp"
    /\ waited' = 0
    /\ \/ /\ connect_failed("tcp", "lwip", FALSE)      \* tcp_new returned NULL
          /\ UNCHANGED <<pcb, lw, callbacks>>
       \/ /\ pcb' = TRUE /\ callbacks' = TRUE
          /\ \/ lw' = "bound" /\ connect_failed("tcp", "lwip", FALSE)
             \/ lw' = "connecting" /\ pc' = "wait" /\ UNCHANGED result
    /\ UNCHANGED <<op, script, bad, step, conn, flags, session, ring, counts, peerLeft, history>>

\* Mutation: the start of the wait is taken anew in every round.
WaitRestarts == waited' = 0
\* A sleep of one round.
WaitRound == waited' = waited + 1

\* The wait for on_connected: the flags are read first, the clock after.
WaitTcp ==
    /\ pc = "wait"
    /\ pc' = IF tcp_connected \/ tcp_error THEN "check" ELSE "deadline"
    /\ UNCHANGED <<op, script, bad, waited, step, conn, pcb, flags, session, ring, counts, net,
                   mem_stage, result, history>>

WaitTcpDeadline ==
    /\ pc = "deadline"
    /\ \/ /\ waited = PollLimit
          /\ connect_failed("tcp", "timeout", TRUE)
          /\ UNCHANGED waited
       \/ /\ waited < PollLimit
          /\ WaitRound
          /\ pc' = "wait"
          /\ UNCHANGED result
    /\ UNCHANGED <<op, script, bad, step, conn, pcb, flags, session, ring, counts, net,
                   mem_stage, history>>

CheckTcp ==
    /\ pc = "check"
    /\ \/ /\ tcp_error
          /\ connect_failed("tcp", "lwip", FALSE)
          /\ UNCHANGED step
       \/ /\ ~tcp_error
          /\ pc' = "setup" /\ step' = 1
          /\ UNCHANGED result
    /\ UNCHANGED <<op, script, bad, waited, conn, pcb, flags, session, ring, counts, net,
                   mem_stage, history>>

\* Mutation: the stage of the certificate is set after it was loaded.
SetupStepsLate == <<
    [mem |-> "tls_context", fail |-> "tls_context", error |-> "allocation", makes |-> "ctx"],
    [mem |-> "tls_context", fail |-> "certificate", error |-> "ssl",        makes |-> "-"],
    [mem |-> "certificate", fail |-> "certificate", error |-> "ssl",        makes |-> "-"],
    [mem |-> "private_key", fail |-> "private_key", error |-> "ssl",        makes |-> "-"],
    [mem |-> "tls_context", fail |-> "tls_context", error |-> "allocation", makes |-> "ssl"],
    [mem |-> "key_share",   fail |-> "key_share",   error |-> "ssl",        makes |-> "-"],
    [mem |-> "key_share",   fail |-> "key_share",   error |-> "ssl",        makes |-> "-"] >>

\* The wolfSSL calls between TCP and the handshake: the memory stage set
\* before the call, the failure reported when it fails, the object it makes.
SetupSteps == <<
    [mem |-> "tls_context", fail |-> "tls_context", error |-> "allocation", makes |-> "ctx"],
    [mem |-> "certificate", fail |-> "certificate", error |-> "ssl",        makes |-> "-"],
    [mem |-> "certificate", fail |-> "certificate", error |-> "ssl",        makes |-> "-"],
    [mem |-> "private_key", fail |-> "private_key", error |-> "ssl",        makes |-> "-"],
    [mem |-> "tls_context", fail |-> "tls_context", error |-> "allocation", makes |-> "ssl"],
    [mem |-> "key_share",   fail |-> "key_share",   error |-> "ssl",        makes |-> "-"],
    [mem |-> "key_share",   fail |-> "key_share",   error |-> "ssl",        makes |-> "-"] >>

Setup ==
    LET row == SetupSteps[step]
    IN  /\ pc = "setup"
        /\ mem_stage' = row.mem
        /\ \/ /\ connect_failed(row.fail, row.error, FALSE)
              /\ UNCHANGED <<step, ssl_ctx, ssl>>
           \/ /\ ssl_ctx' = (ssl_ctx \/ row.makes = "ctx")
              /\ ssl' = (ssl \/ row.makes = "ssl")
              /\ pc' = IF step = Len(SetupSteps) THEN "handshake" ELSE "setup"
              /\ step' = IF step = Len(SetupSteps) THEN 1 ELSE step + 1
              /\ UNCHANGED result
        /\ UNCHANGED <<op, script, bad, waited, conn, pcb, flags, io_timed_out,
                       in_handshake, ring, counts, net, history>>

-----------------------------------------------------------------------------
(* wolfSSL and its I/O callbacks. *)

\* The main loop calls wolfSSL, which will make the calls of s.
CallWolf(o, s) ==
    /\ op' = o /\ script' = s /\ bad' = FALSE
    /\ pc' = "wolfssl"

\* A callback of the operation has returned an error.
OperationFails == script' = <<>> /\ bad' = TRUE /\ pc' = "wolfssl"

Handshake ==
    /\ pc = "handshake"
    /\ mem_stage' = "tls_handshake"
    /\ in_handshake' = TRUE
    /\ CallWolf("connect", HsScript)
    /\ UNCHANGED <<waited, step, conn, pcb, flags, io_timed_out, ssl_ctx, ssl, ring, counts,
                   net, result, history>>

\* wssl_send up to its check of the connection, which is outside the lock.
wssl_send ==
    /\ pc = "wolfssl" /\ script # <<>> /\ Head(script) = "send"
    /\ sendCalls' = IF op = "connect" THEN sendCalls + 1 ELSE sendCalls
    /\ \/ /\ ~pcb \/ tcp_error
          /\ OperationFails
       \/ /\ pcb /\ ~tcp_error
          /\ pc' = "send"
          /\ UNCHANGED <<script, bad>>
    /\ UNCHANGED <<op, waited, step, conn, pcb, flags, session, ring, counts, net,
                   mem_stage, result, blocked, lastRead, nullCall>>

\* tcp_write, under the lock.  ERR_MEM (no room in the send buffer) is an
\* error like any other.  With a NULL PCB lwIP stops the board or, built
\* without assertions, returns an error.
wssl_send_locked ==
    /\ pc = "send"
    /\ \/ /\ pcb
          /\ \/ /\ script' = Tail(script)
                /\ pc' = "wolfssl"
                /\ hs_tx_calls' = IF in_handshake THEN hs_tx_calls + 1 ELSE hs_tx_calls
                /\ UNCHANGED bad
             \/ OperationFails /\ UNCHANGED hs_tx_calls
          /\ UNCHANGED nullCall
       \/ /\ ~pcb
          /\ nullCall' = TRUE
          /\ \/ pc' = "halted" /\ UNCHANGED <<script, bad>>
             \/ OperationFails
          /\ UNCHANGED hs_tx_calls
    /\ UNCHANGED <<op, waited, step, conn, pcb, flags, session, ring, hs_rx_calls,
                   hs_net_wait_us, net, mem_stage, result, sendCalls, blocked, lastRead>>

wssl_recv ==
    /\ pc = "wolfssl" /\ script # <<>> /\ Head(script) = "recv"
    /\ pc' = "recv" /\ waited' = 0
    /\ UNCHANGED <<op, script, bad, step, conn, pcb, flags, session, ring, counts, net,
                   mem_stage, result, history>>

\* What wolfSSL makes of the data: a complete message, a part of one (it
\* calls again), or a message it answers with an alert.
AfterData ==
    \/ script' = Tail(script) /\ UNCHANGED bad
    \/ UNCHANGED <<script, bad>>
    \/ script' = <<"send">> /\ bad' = TRUE

Closed == tcp_error \/ remote_closed

DrainedIgnored == TRUE    \* mutation: the end is looked at before the data
Drained == ring = 0

\* One round of the loop of wssl_recv: data first, then the connection's
\* end, both read under the lock.
wssl_recv_poll ==
    /\ pc = "recv"
    /\ \/ /\ ring > 0
          /\ \E got \in 1..ring : ring' = ring - got
          /\ hs_rx_calls' = IF in_handshake THEN hs_rx_calls + 1 ELSE hs_rx_calls
          /\ hs_net_wait_us' = IF in_handshake THEN hs_net_wait_us + waited
                                               ELSE hs_net_wait_us
          /\ AfterData
          /\ pc' = "wolfssl" /\ lastRead' = "data"
       \/ /\ Drained /\ Closed
          /\ OperationFails
          /\ lastRead' = "closed"
          /\ UNCHANGED <<ring, hs_rx_calls, hs_net_wait_us>>
       \/ /\ Drained /\ ~Closed
          /\ pc' = "recv_deadline"
          /\ UNCHANGED <<script, bad, ring, hs_rx_calls, hs_net_wait_us, lastRead>>
    /\ UNCHANGED <<op, waited, step, conn, pcb, flags, session, hs_tx_calls, net,
                   mem_stage, result, sendCalls, blocked, nullCall>>

\* The clock is read after the lock was released.
wssl_recv_deadline ==
    /\ pc = "recv_deadline"
    /\ \/ /\ waited = PollLimit
          /\ io_timed_out' = TRUE
          /\ OperationFails
          /\ lastRead' = "timeout"
          /\ UNCHANGED <<waited, blocked>>
       \/ /\ waited < PollLimit
          /\ WaitRound
          /\ blocked' = IF in_handshake THEN blocked + 1 ELSE blocked
          /\ pc' = "recv"
          /\ UNCHANGED <<io_timed_out, script, bad, lastRead>>
    /\ UNCHANGED <<op, step, conn, pcb, flags, in_handshake, ssl_ctx, ssl, ring, counts,
                   net, mem_stage, result, sendCalls, nullCall>>

HandshakeStaysOn == UNCHANGED in_handshake  \* mutation: the flag is not cleared
HandshakeOff == in_handshake' = FALSE

\* wolfSSL_connect returns.  None of the callbacks reports WANT_READ or
\* WANT_WRITE, so the loop ends here; the 30 s deadline is looked at only
\* now, and before the return value.
HandshakeReturns ==
    /\ pc = "wolfssl" /\ script = <<>> /\ op = "connect"
    /\ HandshakeOff
    /\ \/ connect_failed("tls_handshake", "timeout", TRUE)     \* past the deadline
       \/ /\ bad
          /\ connect_failed("tls_handshake", IF io_timed_out THEN "timeout" ELSE "ssl",
                            io_timed_out)
       \/ /\ ~bad
          /\ pc' = "ready" /\ UNCHANGED result
    /\ UNCHANGED <<op, script, bad, waited, step, conn, pcb, flags, io_timed_out, ssl_ctx,
                   ssl, ring, counts, net, mem_stage, history>>

\* wolfSSL_write and wolfSSL_read return to the application.
IoReturns ==
    /\ pc = "wolfssl" /\ script = <<>> /\ op \in {"write", "read"}
    /\ pc' = "ready"
    /\ UNCHANGED <<op, script, bad, waited, step, conn, pcb, flags, session, ring, counts,
                   net, mem_stage, result, history>>

-----------------------------------------------------------------------------
(* The rest of the interface, called by the application. *)

\* A session that already failed makes no I/O call.
tls_write ==
    /\ pc = "ready"
    /\ \E s \in {<<>>, <<"send">>} : CallWolf("write", s)
    /\ UNCHANGED <<waited, step, conn, pcb, flags, session, ring, counts, net, mem_stage,
                   result, history>>

TimeoutKept == UNCHANGED io_timed_out    \* mutation: tls_read does not reset it
TimeoutReset == io_timed_out' = FALSE

\* Neither does a read that finds a decrypted record.
tls_read ==
    /\ pc = "ready"
    /\ TimeoutReset
    /\ lastRead' = "none"
    /\ \E s \in {<<>>, <<"recv">>} : CallWolf("read", s)
    /\ UNCHANGED <<waited, step, conn, pcb, flags, in_handshake, ssl_ctx, ssl, ring, counts,
                   net, mem_stage, result, sendCalls, blocked, nullCall>>

tls_close ==
    /\ pc = "ready"
    /\ pc' = "close"
    /\ UNCHANGED <<op, script, bad, waited, step, conn, pcb, flags, session, ring, counts,
                   net, mem_stage, result, history>>

\* The body of tls_close.  wolfSSL_shutdown sends a close_notify unless the
\* session is already past it.
CloseShutdown ==
    /\ pc = "close"
    /\ mem_stage' = "close"
    /\ \/ ssl /\ \E s \in {<<>>, <<"send">>} : CallWolf("shutdown", s)
       \/ ~ssl /\ pc' = "release" /\ UNCHANGED <<op, script, bad>>
    /\ ssl_ctx' = (ssl_ctx /\ ssl)
    /\ UNCHANGED <<waited, step, conn, pcb, flags, io_timed_out, in_handshake, ssl, ring,
                   counts, net, result, history>>

\* Mutation: the context is not freed.
FreeSessionOnly == ssl' = FALSE /\ UNCHANGED ssl_ctx
FreeSession == ssl' = FALSE /\ ssl_ctx' = FALSE

\* wolfSSL_shutdown returns; the session and its context are freed.
ShutdownReturns ==
    /\ pc = "wolfssl" /\ script = <<>> /\ op = "shutdown"
    /\ FreeSession
    /\ pc' = "release"
    /\ UNCHANGED <<op, script, bad, waited, step, conn, pcb, flags, io_timed_out,
                   in_handshake, ring, counts, net, mem_stage, result, history>>

\* The test of conn->pcb, outside the lock.
CloseCheckPcb ==
    /\ pc = "release"
    /\ pc' = IF pcb THEN "detach" ELSE "free"
    /\ UNCHANGED <<op, script, bad, waited, step, conn, pcb, flags, session, ring, counts,
                   net, mem_stage, result, history>>

StayRegistered == UNCHANGED callbacks    \* mutation: tcp_arg and the rest are left
Unregister == callbacks' = FALSE

\* The locked section: the callbacks are removed and the PCB is closed, or
\* aborted when tcp_close has no memory for the FIN.
CloseDetach ==
    /\ pc = "detach"
    /\ \/ /\ pcb
          /\ Unregister
          /\ lw' \in {"closing", "none"}
          /\ pc' = "free"
          /\ UNCHANGED nullCall
       \/ /\ ~pcb
          /\ nullCall' = TRUE
          /\ pc' \in {"halted", "free"}
          /\ UNCHANGED <<callbacks, lw>>
    /\ UNCHANGED <<op, script, bad, waited, step, conn, pcb, flags, session, ring, counts,
                   peerLeft, mem_stage, result, sendCalls, blocked, lastRead>>

\* free(conn).
CloseFree ==
    /\ pc = "free"
    /\ conn' = FALSE /\ pcb' = FALSE
    /\ pc' = "idle"
    /\ UNCHANGED <<op, script, bad, waited, step, flags, session, ring, counts, net,
                   mem_stage, result, history>>

\* A board that lwIP has stopped.
Halted == pc = "halted" /\ UNCHANGED vars

-----------------------------------------------------------------------------
Init ==
    /\ pc = "idle" /\ op = "none" /\ script = <<>> /\ bad = FALSE /\ waited = 0 /\ step = 1
    /\ conn = FALSE /\ pcb = FALSE
    /\ tcp_connected = FALSE /\ tcp_error = FALSE /\ remote_closed = FALSE
    /\ io_timed_out = FALSE /\ in_handshake = FALSE /\ ssl_ctx = FALSE /\ ssl = FALSE
    /\ ring = 0
    /\ hs_tx_calls = 0 /\ hs_rx_calls = 0 /\ hs_net_wait_us = 0
    /\ lw = "none" /\ callbacks = FALSE /\ peerLeft = MaxUnits
    /\ mem_stage = "none" /\ result = NoFailure
    /\ sendCalls = 0 /\ blocked = 0 /\ lastRead = "none" /\ nullCall = FALSE

Connect == Resolve \/ OpenTcp \/ WaitTcp \/ WaitTcpDeadline \/ CheckTcp \/ Setup
           \/ Handshake \/ HandshakeReturns

InOut == wssl_send \/ wssl_send_locked \/ wssl_recv \/ wssl_recv_poll
         \/ wssl_recv_deadline \/ IoReturns

Closing == CloseShutdown \/ ShutdownReturns \/ CloseCheckPcb \/ CloseDetach \/ CloseFree

Application == Start \/ tls_write \/ tls_read \/ tls_close

Next == Connect \/ InOut \/ Closing \/ Application \/ Callback \/ Halted

\* The main loop keeps running: it is the only thread, and interrupts end.  Nothing is
\* assumed of the network, of lwIP or of the application: the peer need not stop sending.
Fairness == WF_vars(Connect \/ InOut \/ Closing)

Spec == Init /\ [][Next]_vars /\ Fairness

-----------------------------------------------------------------------------
(* Properties. *)

Results ==
    [stage : Stages \cup {"none"}, error : Errors \cup {"ok"}, timed_out : BOOLEAN]

MainType ==
    /\ pc \in {"idle", "resolve", "open", "wait", "deadline", "check", "setup", "handshake",
               "wolfssl", "send", "recv", "recv_deadline", "ready", "close", "release",
               "detach", "free", "halted"}
    /\ op \in {"none", "connect", "write", "read", "shutdown"}
    /\ script \in Seq({"send", "recv"})
    /\ waited \in Nat /\ step \in 1..Len(SetupSteps)

FlagType ==
    /\ bad \in BOOLEAN /\ conn \in BOOLEAN /\ pcb \in BOOLEAN
    /\ tcp_connected \in BOOLEAN /\ tcp_error \in BOOLEAN /\ remote_closed \in BOOLEAN
    /\ io_timed_out \in BOOLEAN /\ in_handshake \in BOOLEAN
    /\ ssl_ctx \in BOOLEAN /\ ssl \in BOOLEAN
    /\ callbacks \in BOOLEAN /\ nullCall \in BOOLEAN

CountType ==
    /\ ring \in 0..RingCap /\ peerLeft \in 0..MaxUnits
    /\ hs_tx_calls \in Nat /\ hs_rx_calls \in Nat /\ hs_net_wait_us \in Nat
    /\ sendCalls \in Nat /\ blocked \in Nat

StageType ==
    /\ lw \in {"none", "bound", "connecting", "open", "closing"}
    /\ mem_stage \in Stages \cup {"none", "close"}
    /\ result \in Results
    /\ lastRead \in {"none", "data", "closed", "timeout"}

TypeOK == MainType /\ FlagType /\ CountType /\ StageType

\* An lwIP callback never runs with a freed tls_conn_t as its argument: the
\* registrations of tls_connect_common do not outlive the free in tls_close,
\* whatever on_err did meanwhile.
CallbacksTargetLive == callbacks => conn

\* conn->pcb never names a PCB that lwIP has freed: on_err clears it before
\* the main loop can look.
PcbNotDangling == pcb /\ pc # "free" => lw \in {"bound", "connecting", "open"}

\* Between attempts nothing of the last one is left, whichever of the exits
\* of tls_connect_common it took; a connection handed out is complete.
NothingLeaks ==
    /\ pc = "idle" => ~conn /\ ~pcb /\ ~callbacks /\ ~ssl /\ ~ssl_ctx
                      /\ lw \in {"none", "closing"}
    /\ pc = "ready" => conn /\ ssl /\ ssl_ctx /\ tcp_connected

\* Where the main loop is inside a wolfSSL operation.
InOperation == {"wolfssl", "send", "recv", "recv_deadline"}

\* wolfSSL is told the connection is closed only after it got every byte the
\* ring accepted, and nothing arrives afterwards.
EndOfStreamIsFinal == lastRead = "closed" => ring = 0 /\ Closed

\* tls_io_timed_out: the answer is about the most recent transport read, also
\* when writes, failures or a whole handshake lie in between.
IoTimedOutIsLastRead == conn => (io_timed_out <=> lastRead = "timeout")

\* The failure stage an attempt reports is the stage the memory monitor was
\* in when it failed: the two are set by separate calls along the way.
FailureStageMatches ==
    [][result' # result /\ result'.stage # "none" => result'.stage = mem_stage']_vars

\* The handshake columns of an attempt that was not failed are those of its handshake, to the
\* last call and the last wait, and stay what they are while the application reads and writes
\* and while the close_notify is sent: every exit of the handshake clears in_handshake, and
\* what wssl_send and wssl_recv leave out is what ends in a failure.
HandshakeCountsExact ==
    result.stage = "none" /\ ~(op = "connect" /\ pc \in InOperation \cup {"halted"}) =>
        hs_tx_calls = sendCalls /\ hs_net_wait_us = blocked

\* In a call of this interface, until it is back in the application.
Busy == pc \notin {"idle", "ready", "halted"}

\* A receive of wolfSSL's ends with data.
Receives == pc = "recv" /\ pc' = "wolfssl" /\ lastRead' = "data"

\* A call returns unless the peer feeds it data for ever.  The wait for TCP and each single
\* receive have a deadline of their own, counted from where they start, and nothing else
\* waits; but no deadline spans several receives (that of the handshake is looked at once
\* wolfSSL_connect is back), so a peer that keeps sending parts of messages may hold a call.
CallsReturn == <>[]Busy => []<><<Receives>>_vars

\* The contract of tls_transport.h.
Phase ==
    CASE pc \in {"idle", "ready", "halted"} -> pc
      [] pc \in {"close", "release", "detach", "free"} -> "closing"
      [] pc \in {"wolfssl", "send", "recv", "recv_deadline"} ->
            CASE op = "connect" -> "connecting"
              [] op = "shutdown" -> "closing"
              [] OTHER -> "ready"
      [] OTHER -> "connecting"

Attempt == INSTANCE TlsAttempt WITH phase <- Phase

RefinesAttempt == Attempt!Spec

-----------------------------------------------------------------------------
(* What the source says and the code does not do. *)

\* tls_transport.c looks at conn->pcb before it takes the lwIP lock and uses
\* it under the lock, so that lwIP would only be given a PCB it still owns.
NoNullPcbCall == ~nullCall

HandshakeOver == op = "connect" /\ pc \in {"close", "ready"}

\* tls_net_wait_us is the time of the handshake spent waiting for the peer.
NetWaitIsBlockedTime == HandshakeOver => hs_net_wait_us = blocked

\* handshake_tx_calls counts the invocations of the send callback.
TxCallsAreInvocations == HandshakeOver => hs_tx_calls = sendCalls
=============================================================================
