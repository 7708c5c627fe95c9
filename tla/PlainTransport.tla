--------------------------- MODULE PlainTransport ---------------------------
(***************************************************************************)
(* mqtt_client/plain_transport.c: the transport interface without TLS, and *)
(* the DNS lookup, which tls_transport.c holds a copy of.                  *)
(*                                                                         *)
(* As in TlsTransport, a callback of lwIP (dns_cb among them) and a locked *)
(* section of the main loop are one step each, unlocked accesses to shared *)
(* state are steps of their own, and a waiting loop counts time in units   *)
(* of its sleep up to its deadline.  The three variables of the lookup are *)
(* global: they and lwIP's pending request outlive the attempt.            *)
(***************************************************************************)
EXTENDS Integers

CONSTANTS ConnErrs,    \* the err lwIP passes to on_connected: "ok", by its contract
          RingCap,     \* units the receive ring holds
          MaxUnits,    \* bound: units the peer sends on a connection
          MaxWant,     \* bound: units asked for in one read
          PollLimit    \* deadline of a waiting loop, in units of waiting

ASSUME PlainTransportAssumption ==
    RingCap \in Nat /\ MaxUnits \in Nat /\ MaxWant \in Nat /\ PollLimit \in Nat

VARIABLES
    pc,             \* where the main loop is
    waited,         \* time spent in the current waiting loop
    want, total,    \* tls_read: len, and what was read of it so far
    ret,            \* what the last tls_read returned
    dns_done, dns_err, dns_result,
    pending,        \* lwIP has a request for the broker's name
    server_ip,      \* the address the lookup returned
    conn,           \* the tls_conn_t is allocated
    pcb,            \* conn->pcb is not NULL
    tcp_connected, tcp_error, remote_closed, io_timed_out,
    ring,           \* units in conn->rx
    measured,       \* the phases whose duration conn holds
    lw,             \* the PCB as lwIP has it
    callbacks,      \* lwIP holds our callbacks with arg = conn
    peerLeft,       \* units the peer may still send
    result,         \* tls_attempt_result_t: the classification
    timings,        \* and the phases result->timings has
    answers,        \* history: how lwIP has answered since this lookup asked
    overtaken,      \* history: an earlier request failed just before it did
    accepted,       \* history: units the ring took on this connection
    handed          \* history: units tls_read returned on it

read   == <<want, total, ret>>
dns    == <<dns_done, dns_err, dns_result, pending>>
flags  == <<tcp_connected, tcp_error, remote_closed>>
net    == <<lw, callbacks>>
stream == <<ring, peerLeft, accepted, handed>>
report == <<result, timings>>
lookup == <<dns, server_ip, answers, overtaken>>
vars == <<pc, waited, read, lookup, conn, pcb, flags, io_timed_out, measured, net, stream,
          report>>

Stages == {"dns", "tcp"}
Errors == {"allocation", "timeout", "lwip"}

NoFailure == [stage |-> "none", error |-> "ok", timed_out |-> FALSE]

Failure(stage, error, timed_out) ==
    result' = [stage |-> stage, error |-> error, timed_out |-> timed_out]

-----------------------------------------------------------------------------
(* lwIP callbacks. *)

\* lwIP keeps one entry per name: a single answer serves every request for it.
dns_cb ==
    /\ pending
    /\ pending' = FALSE
    /\ dns_done' = TRUE
    /\ \/ dns_result' = "address" /\ answers' = answers \cup {"address"} /\ UNCHANGED dns_err
       \/ dns_err' = TRUE /\ answers' = answers \cup {"failure"} /\ UNCHANGED dns_result
    /\ overtaken' = (overtaken \/ (pc = "dns_ask" /\ dns_err'))
    /\ UNCHANGED <<pc, waited, read, server_ip, conn, pcb, flags, io_timed_out, measured, net,
                   stream, report>>

on_connected(err) ==
    /\ callbacks /\ lw = "connecting"
    /\ \/ err = "ok" /\ tcp_connected' = TRUE /\ lw' = "open" /\ UNCHANGED tcp_error
       \/ err # "ok" /\ tcp_error' = TRUE /\ lw' = "bound" /\ UNCHANGED tcp_connected
    /\ UNCHANGED <<pc, waited, read, lookup, conn, pcb, remote_closed, io_timed_out, measured,
                   callbacks, stream, report>>

\* A unit of data; the ring drops what it has no room for.
on_recv ==
    /\ callbacks /\ lw = "open" /\ peerLeft > 0 /\ ~remote_closed
    /\ peerLeft' = peerLeft - 1
    /\ \/ ring < RingCap /\ ring' = ring + 1 /\ accepted' = accepted + 1
       \/ ring = RingCap /\ UNCHANGED <<ring, accepted>>
    /\ UNCHANGED <<pc, waited, read, lookup, conn, pcb, flags, io_timed_out, measured, net,
                   handed, report>>

\* on_recv without a pbuf: the peer has closed its side.
on_recv_closed ==
    /\ callbacks /\ lw = "open" /\ ~remote_closed
    /\ remote_closed' = TRUE
    /\ UNCHANGED <<pc, waited, read, lookup, conn, pcb, tcp_connected, tcp_error, io_timed_out,
                   measured, net, stream, report>>

KeepPcb == UNCHANGED pcb    \* mutation: on_err only sets the flag
ForgetPcb == pcb' = FALSE

\* lwIP has freed the PCB before it calls on_err.
on_err ==
    /\ callbacks /\ lw \in {"connecting", "open"}
    /\ tcp_error' = TRUE
    /\ ForgetPcb
    /\ lw' = "none" /\ callbacks' = FALSE
    /\ UNCHANGED <<pc, waited, read, lookup, conn, tcp_connected, remote_closed, io_timed_out,
                   measured, stream, report>>

Callback ==
    /\ pc # "halted"
    /\ dns_cb \/ (\E err \in ConnErrs : on_connected(err)) \/ on_recv \/ on_recv_closed \/ on_err

-----------------------------------------------------------------------------
(* resolve_host. *)

\* memset of the result and calloc of the connection.
Start ==
    /\ pc = "idle"
    /\ \/ conn' = TRUE /\ result' = NoFailure /\ pc' = "dns_clear"
       \/ Failure("dns", "allocation", FALSE) /\ UNCHANGED <<conn, pc>>
    /\ timings' = {} /\ measured' = {}
    /\ pcb' = FALSE /\ io_timed_out' = FALSE
    /\ tcp_connected' = FALSE /\ tcp_error' = FALSE /\ remote_closed' = FALSE
    /\ ring' = 0 /\ accepted' = 0 /\ handed' = 0 /\ peerLeft' = MaxUnits
    /\ lw' = "none" /\ ret' = 0 /\ want' = 0
    /\ server_ip' = "none"
    /\ UNCHANGED <<waited, total, dns, answers, overtaken, callbacks>>

ClearDone ==
    /\ pc = "dns_clear"
    /\ dns_done' = FALSE
    /\ pc' = "dns_clear_err"
    /\ UNCHANGED <<waited, read, dns_err, dns_result, pending, server_ip, answers, overtaken,
                   conn, pcb, flags, io_timed_out, measured, net, stream, report>>

KeepDnsErr == UNCHANGED dns_err    \* mutation: only dns_done is reset
ResetDnsErr == dns_err' = FALSE

ClearErr ==
    /\ pc = "dns_clear_err"
    /\ ResetDnsErr
    /\ overtaken' = FALSE
    /\ pc' = "dns_ask"
    /\ UNCHANGED <<waited, read, dns_done, dns_result, pending, server_ip, answers, conn, pcb,
                   flags, io_timed_out, measured, net, stream, report>>

\* resolve_host has failed: the attempt records its duration and gives up.
ResolveFails(error, timed_out) ==
    /\ measured' = {"dns"} /\ timings' = {"dns"}
    /\ Failure("dns", error, timed_out)
    /\ pc' = "close"

\* It has succeeded with this address.
Resolves(address) ==
    /\ server_ip' = address
    /\ measured' = {"dns"}
    /\ pc' = "open"
    /\ UNCHANGED report

\* dns_gethostbyname, under the lock.  A name lwIP is still asking for is not
\* in its cache.
Ask ==
    /\ pc = "dns_ask"
    /\ waited' = 0
    /\ \/ /\ ~pending /\ Resolves("address") /\ answers' = {"address"}
          /\ UNCHANGED pending
       \/ /\ ResolveFails("lwip", FALSE) /\ answers' = {"failure"}
          /\ UNCHANGED <<pending, server_ip>>
       \/ /\ pending' = TRUE /\ pc' = "dns_wait" /\ answers' = {}
          /\ UNCHANGED <<server_ip, measured, report>>
    /\ UNCHANGED <<read, dns_done, dns_err, dns_result, overtaken, conn, pcb, flags,
                   io_timed_out, net, stream>>

WaitDns ==
    /\ pc = "dns_wait"
    /\ pc' = IF dns_done THEN "dns_check" ELSE "dns_deadline"
    /\ UNCHANGED <<waited, read, lookup, conn, pcb, flags, io_timed_out, measured, net, stream,
                   report>>

\* Mutation: the start of the wait is taken anew in every round.
WaitRestarts == waited' = 0
\* A sleep of one round.
WaitRound == waited' = waited + 1

WaitDnsDeadline ==
    /\ pc = "dns_deadline"
    /\ \/ waited = PollLimit /\ ResolveFails("timeout", TRUE) /\ UNCHANGED waited
       \/ /\ waited < PollLimit /\ WaitRound /\ pc' = "dns_wait"
          /\ UNCHANGED <<measured, report>>
    /\ UNCHANGED <<read, lookup, conn, pcb, flags, io_timed_out, net, stream>>

CheckDns ==
    /\ pc = "dns_check"
    /\ \/ dns_err /\ ResolveFails("lwip", FALSE)
       \/ ~dns_err /\ pc' = "dns_take" /\ UNCHANGED <<measured, report>>
    /\ UNCHANGED <<waited, read, lookup, conn, pcb, flags, io_timed_out, net, stream>>

TakeAddress ==
    /\ pc = "dns_take"
    /\ Resolves(dns_result)
    /\ UNCHANGED <<waited, read, dns, answers, overtaken, conn, pcb, flags, io_timed_out, net,
                   stream>>

-----------------------------------------------------------------------------
(* The rest of tls_connect_plain_attempt. *)

\* The locked section: no PCB, an error of tcp_connect, or a SYN on its way.
\* The two failures do not capture the timings.
OpenTcp ==
    /\ pc = "open"
    /\ waited' = 0
    /\ \/ /\ Failure("tcp", "lwip", FALSE) /\ pc' = "close"
          /\ UNCHANGED <<pcb, net>>
       \/ /\ pcb' = TRUE /\ callbacks' = TRUE
          /\ \/ lw' = "bound" /\ Failure("tcp", "lwip", FALSE) /\ pc' = "close"
             \/ lw' = "connecting" /\ pc' = "wait" /\ UNCHANGED result
    /\ UNCHANGED <<read, lookup, conn, flags, io_timed_out, measured, stream, timings>>

WaitTcp ==
    /\ pc = "wait"
    /\ pc' = IF tcp_connected \/ tcp_error THEN "check" ELSE "deadline"
    /\ UNCHANGED <<waited, read, lookup, conn, pcb, flags, io_timed_out, measured, net, stream,
                   report>>

\* The TCP phase is over: its duration, and the timings of the attempt.
MeasureTcp == measured' = {"dns", "tcp"} /\ timings' = {"dns", "tcp"}

\* Mutation: the error code of a timeout without the flag.
TimedOutUnflagged == Failure("tcp", "timeout", FALSE)
TcpTimesOut == Failure("tcp", "timeout", TRUE)

WaitTcpDeadline ==
    /\ pc = "deadline"
    /\ \/ waited = PollLimit /\ MeasureTcp /\ TcpTimesOut /\ pc' = "close" /\ UNCHANGED waited
       \/ waited < PollLimit /\ WaitRound /\ pc' = "wait" /\ UNCHANGED <<measured, report>>
    /\ UNCHANGED <<read, lookup, conn, pcb, flags, io_timed_out, net, stream>>

CheckTcp ==
    /\ pc = "check"
    /\ MeasureTcp
    /\ \/ tcp_error /\ Failure("tcp", "lwip", FALSE) /\ pc' = "close"
       \/ ~tcp_error /\ pc' = "ready" /\ UNCHANGED result
    /\ UNCHANGED <<waited, read, lookup, conn, pcb, flags, io_timed_out, net, stream>>

-----------------------------------------------------------------------------
(* tls_write, tls_read and tls_close, called by the application. *)

\* The test of the connection, outside the lock; a failed one returns -1.
tls_write ==
    /\ pc = "ready" /\ pcb /\ ~tcp_error
    /\ pc' = "write"
    /\ UNCHANGED <<waited, read, lookup, conn, pcb, flags, io_timed_out, measured, net, stream,
                   report>>

\* tcp_write, under the lock.  With a NULL PCB lwIP stops the board or, built
\* without assertions, returns an error.
WriteLocked ==
    /\ pc = "write"
    /\ pc' \in IF pcb THEN {"ready"} ELSE {"ready", "halted"}
    /\ UNCHANGED <<waited, read, lookup, conn, pcb, flags, io_timed_out, measured, net, stream,
                   report>>

tls_read ==
    /\ pc = "ready"
    /\ want' \in 1..MaxWant /\ total' = 0 /\ waited' = 0
    /\ io_timed_out' = FALSE
    /\ pc' = "read"
    /\ UNCHANGED <<ret, lookup, conn, pcb, flags, measured, net, stream, report>>

Closed == tcp_error \/ remote_closed

\* tls_read returns what it has read, and an error only if that is nothing.
Return(n) ==
    /\ ret' = IF n > 0 THEN n ELSE -1
    /\ handed' = handed + n
    /\ total' = 0
    /\ pc' = "ready"

\* Mutation: a read that cannot be completed is an error.
ReturnNothing(n) ==
    /\ ret' = -1
    /\ total' = 0
    /\ pc' = "ready"
    /\ UNCHANGED handed

ReturnShort(n) == Return(n)

Fetched == IF want - total < ring THEN want - total ELSE ring

\* Mutation: what has arrived is enough.
CompleteEarly(n) == n > 0
Complete(n) == n = want

\* One round of the loop: the ring and the flags under the lock, then the
\* tests on what they were.
ReadPoll ==
    /\ pc = "read"
    /\ ring' = ring - Fetched
    /\ LET n == total + Fetched
       IN  \/ Complete(n) /\ Return(n)
           \/ ~Complete(n) /\ Closed /\ ReturnShort(n)
           \/ ~Complete(n) /\ ~Closed /\ total' = n /\ pc' = "read_deadline"
              /\ UNCHANGED <<ret, handed>>
    /\ UNCHANGED <<waited, want, lookup, conn, pcb, flags, io_timed_out, measured, net,
                   peerLeft, accepted, report>>

ReadDeadline ==
    /\ pc = "read_deadline"
    /\ \/ waited = PollLimit /\ io_timed_out' = TRUE /\ ReturnShort(total) /\ UNCHANGED waited
       \/ /\ waited < PollLimit /\ WaitRound /\ pc' = "read"
          /\ UNCHANGED <<io_timed_out, total, ret, handed>>
    /\ UNCHANGED <<want, lookup, conn, pcb, flags, measured, net, ring, peerLeft, accepted,
                   report>>

tls_close ==
    /\ pc = "ready"
    /\ pc' = "close"
    /\ UNCHANGED <<waited, read, lookup, conn, pcb, flags, io_timed_out, measured, net, stream,
                   report>>

\* Mutation: a connection with an error is taken to have no PCB.
CloseCheckError ==
    /\ pc = "close"
    /\ pc' = IF pcb /\ ~tcp_error THEN "detach" ELSE "free"
    /\ UNCHANGED <<waited, read, lookup, conn, pcb, flags, io_timed_out, measured, net, stream,
                   report>>

\* The body of tls_close: the test of conn->pcb, outside the lock.
CloseCheckPcb ==
    /\ pc = "close"
    /\ pc' = IF pcb THEN "detach" ELSE "free"
    /\ UNCHANGED <<waited, read, lookup, conn, pcb, flags, io_timed_out, measured, net, stream,
                   report>>

Unregister == callbacks' = FALSE

\* The locked section: the callbacks are removed and the PCB is closed, or
\* aborted when tcp_close has no memory for the FIN.
CloseDetach ==
    /\ pc = "detach"
    /\ \/ pcb /\ Unregister /\ lw' \in {"closing", "none"} /\ pc' = "free"
       \/ ~pcb /\ pc' \in {"halted", "free"} /\ UNCHANGED net
    /\ UNCHANGED <<waited, read, lookup, conn, pcb, flags, io_timed_out, measured, stream,
                   report>>

\* free(conn).
CloseFree ==
    /\ pc = "free"
    /\ conn' = FALSE /\ pcb' = FALSE
    /\ pc' = "idle"
    /\ UNCHANGED <<waited, read, lookup, flags, io_timed_out, measured, net, stream, report>>

\* A board that lwIP has stopped.
Halted == pc = "halted" /\ UNCHANGED vars

-----------------------------------------------------------------------------
Init ==
    /\ pc = "idle" /\ waited = 0 /\ want = 0 /\ total = 0 /\ ret = 0
    /\ dns_done = FALSE /\ dns_err = FALSE /\ dns_result = "none" /\ pending = FALSE
    /\ server_ip = "none" /\ answers = {} /\ overtaken = FALSE
    /\ conn = FALSE /\ pcb = FALSE
    /\ tcp_connected = FALSE /\ tcp_error = FALSE /\ remote_closed = FALSE
    /\ io_timed_out = FALSE
    /\ ring = 0 /\ accepted = 0 /\ handed = 0 /\ peerLeft = MaxUnits
    /\ lw = "none" /\ callbacks = FALSE
    /\ result = NoFailure /\ measured = {} /\ timings = {}

Lookup == ClearDone \/ ClearErr \/ Ask \/ WaitDns \/ WaitDnsDeadline \/ CheckDns \/ TakeAddress

Connect == OpenTcp \/ WaitTcp \/ WaitTcpDeadline \/ CheckTcp

InOut == WriteLocked \/ ReadPoll \/ ReadDeadline

Closing == CloseCheckPcb \/ CloseDetach \/ CloseFree

Application == Start \/ tls_write \/ tls_read \/ tls_close

Next == Lookup \/ Connect \/ InOut \/ Closing \/ Application \/ Callback \/ Halted

\* The main loop keeps running; nothing is assumed of the network, of lwIP
\* or of the application.
Fairness == WF_vars(Lookup \/ Connect \/ InOut \/ Closing)

Spec == Init /\ [][Next]_vars /\ Fairness

-----------------------------------------------------------------------------
(* Properties. *)

MainType ==
    /\ pc \in {"idle", "dns_clear", "dns_clear_err", "dns_ask", "dns_wait", "dns_deadline",
               "dns_check", "dns_take", "open", "wait", "deadline", "check", "ready", "write",
               "read", "read_deadline", "close", "detach", "free", "halted"}
    /\ waited \in 0..PollLimit
    /\ want \in 0..MaxWant /\ total \in 0..MaxWant /\ ret \in -1..MaxWant

FlagType ==
    /\ conn \in BOOLEAN /\ pcb \in BOOLEAN
    /\ tcp_connected \in BOOLEAN /\ tcp_error \in BOOLEAN /\ remote_closed \in BOOLEAN
    /\ io_timed_out \in BOOLEAN /\ callbacks \in BOOLEAN
    /\ dns_done \in BOOLEAN /\ dns_err \in BOOLEAN /\ pending \in BOOLEAN

StreamType ==
    /\ ring \in 0..RingCap /\ peerLeft \in 0..MaxUnits
    /\ accepted \in 0..MaxUnits /\ handed \in 0..MaxUnits
    /\ lw \in {"none", "bound", "connecting", "open", "closing"}

LookupType ==
    /\ dns_result \in {"none", "address"} /\ server_ip \in {"none", "address"}
    /\ answers \in SUBSET {"address", "failure"} /\ overtaken \in BOOLEAN
    /\ measured \in SUBSET Stages /\ timings \in SUBSET Stages

Results ==
    [stage : Stages \cup {"none"}, error : Errors \cup {"ok"}, timed_out : BOOLEAN]

TypeOK == MainType /\ FlagType /\ StreamType /\ LookupType /\ result \in Results

\* An lwIP callback never runs with a freed tls_conn_t as its argument.
CallbacksTargetLive == callbacks => conn

\* conn->pcb never names a PCB that lwIP has freed.
PcbNotDangling == pcb /\ pc # "free" => lw \in {"bound", "connecting", "open"}

\* Between attempts nothing of the last one is left, whichever of the exits
\* of tls_connect_plain_attempt it took; the DNS request may be.
NothingLeaks == pc = "idle" => ~conn /\ ~pcb /\ ~callbacks /\ lw \in {"none", "closing"}

\* What the ring accepted is in the ring, in the read in progress or was
\* returned: a read that is cut short by a close or its deadline returns
\* what it already took from the ring.
ReadLosesNothing == conn => accepted = ring + total + handed

\* mqtt.c takes a short read for an error: a read returns less than it was
\* asked for only at the end of the connection or of its time, and
\* tls_io_timed_out tells the second case from a complete read.
ShortReadIsExplained ==
    pc = "ready" /\ want > 0 =>
        /\ ret < want => io_timed_out \/ Closed
        /\ io_timed_out => ret < want

LookupFailed == pc = "close" /\ result.stage = "dns" /\ result.error = "lwip"

\* A lookup fails with lwIP's error only if lwIP failed it after it had asked, or failed an
\* earlier request in the window between the reset of dns_err and this lookup's own request
\* (DnsFailureIsOwn, below, is refuted by that window).  No error the global flags held
\* before the reset ends it, whichever lookup left it there and however late it came.
DnsFailureIsThisLookup == LookupFailed => "failure" \in answers \/ overtaken

\* Every call ends: an attempt, a read, a write and a close come back to the
\* application unless lwIP stopped the board.
CallsReturn == pc \notin {"idle", "ready", "halted"} ~> pc \in {"idle", "ready", "halted"}

\* The contract of tls_transport.h, kept by both transports.
Phase ==
    CASE pc \in {"idle", "halted"} -> pc
      [] pc \in {"ready", "write", "read", "read_deadline"} -> "ready"
      [] pc \in {"close", "detach", "free"} -> "closing"
      [] OTHER -> "connecting"

Attempt == INSTANCE TlsAttempt WITH phase <- Phase

RefinesAttempt == Attempt!Spec

-----------------------------------------------------------------------------
(* What the source says and the code does not do. *)

\* resolve_host returns true with the address of the broker.
ResolvedIsAnAddress == pc = "open" => server_ip = "address"

\* A lookup fails with lwIP's error only if lwIP failed its own request.
DnsFailureIsOwn == LookupFailed => "failure" \in answers

\* A failed attempt retains the timings of the phases it completed.
TimingsRetained ==
    pc = "close" /\ result.stage # "none" => measured \subseteq timings
=============================================================================
