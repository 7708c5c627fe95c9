------------------------- MODULE TlsTransport_proofs -------------------------
(***************************************************************************)
(* Proofs about TlsTransport for every handshake script, ring, deadline    *)
(* and amount of traffic: the memory safety of the connection structure    *)
(* shared with the lwIP callbacks, the release of everything an attempt    *)
(* took, and the contract TlsAttempt.                                      *)
(***************************************************************************)
EXTENDS TlsTransport, SequenceTheorems, TLAPS

(* Where the main loop is inside a wolfSSL operation. *)
InWolf == pc \in {"wolfssl", "send", "recv", "recv_deadline"}

(* lwIP has the PCB with our callbacks exactly as long as conn->pcb names it:
   on_err and the locked section of tls_close end both at once. *)
PcbInv ==
    /\ callbacks <=> lw \in {"bound", "connecting", "open"}
    /\ pc # "free" => (pcb <=> callbacks)
    /\ pc \in {"free", "idle", "resolve", "open"} => ~callbacks

(* The structure lives from Start to CloseFree. *)
ConnInv == conn <=> pc # "idle"

(* The wolfSSL objects follow the rows of SetupSteps and tls_close. *)
SslInv ==
    /\ pc \in {"idle", "resolve", "open", "wait", "deadline", "check", "release", "detach",
               "free"} => ~ssl /\ ~ssl_ctx
    /\ pc = "setup" => (ssl_ctx <=> step > 1) /\ (ssl <=> step > 5)
    /\ pc \in {"handshake", "ready"} \/ InWolf => ssl
    /\ ssl => ssl_ctx

(* What the control points say about the operation in progress. *)
ControlInv ==
    /\ InWolf => op # "none"
    /\ pc \in {"send", "recv", "recv_deadline"} => script # <<>>
    /\ pc = "check" => tcp_connected \/ tcp_error
    /\ pc \in {"setup", "handshake", "ready"} \/ (InWolf /\ op # "shutdown") => tcp_connected

(* A connection that has ended receives nothing more. *)
StreamInv ==
    /\ tcp_error => lw \notin {"connecting", "open"}
    /\ pc \in {"resolve", "open"} => ~tcp_error
    /\ EndOfStreamIsFinal

(* io_timed_out survives only operations that do not receive. *)
TimeoutInv ==
    /\ pc \in {"resolve", "open", "wait", "deadline", "check", "setup", "handshake"}
          => ~io_timed_out /\ lastRead = "none"
    /\ InWolf /\ io_timed_out => script \in {<<>>, <<"send">>}
    /\ pc \in {"recv", "recv_deadline"} => ~io_timed_out
    /\ IoTimedOutIsLastRead

(* Only the handshake is counted. *)
ScopeInv ==
    /\ in_handshake => op = "connect" /\ (InWolf \/ pc = "halted")
    /\ op = "connect" /\ InWolf => in_handshake

(* While no callback has failed, the counters lack only the call and the wait
   that are going on. *)
CountInv ==
    /\ HandshakeCountsExact
    /\ pc \in {"resolve", "open", "wait", "deadline", "check", "setup", "handshake"}
          \/ (op = "connect" /\ InWolf) => result.stage = "none"
    /\ op = "connect" /\ InWolf /\ ~bad =>
          /\ sendCalls = IF pc = "send" THEN hs_tx_calls + 1 ELSE hs_tx_calls
          /\ blocked = IF pc \in {"recv", "recv_deadline"} THEN hs_net_wait_us + waited
                       ELSE hs_net_wait_us

(* The memory monitor's stage, where an attempt can fail outside SetupSteps. *)
MemInv ==
    /\ pc = "resolve" => mem_stage = "dns"
    /\ pc \in {"wait", "deadline", "check"} => mem_stage = "tcp"
    /\ InWolf /\ op = "connect" => mem_stage = "tls_handshake"

IInv ==
    /\ TypeOK
    /\ PcbInv /\ ConnInv /\ SslInv /\ ControlInv
    /\ StreamInv /\ TimeoutInv /\ ScopeInv /\ CountInv /\ MemInv

USE DEF main, flags, session, counts, net, history, rx_push, ForgetPcb, WaitRound, Drained,
        HandshakeOff, TimeoutReset, FreeSession, Unregister

LEMMA Sequences ==
    /\ <<>> \in Seq({"send", "recv"})
    /\ <<"send">> \in Seq({"send", "recv"})
    /\ <<"recv">> \in Seq({"send", "recv"})
    /\ \A s \in Seq({"send", "recv"}) : s # <<>> => Tail(s) \in Seq({"send", "recv"})
    /\ Head(<<"send">>) = "send" /\ Tail(<<"send">>) = <<>>
  BY HeadTailProperties

(* The rows of the setup, spelled out. *)
LEMMA Rows ==
    /\ Len(SetupSteps) = 7
    /\ \A i \in 1..7 :
          /\ SetupSteps[i].mem \in Stages
          /\ SetupSteps[i].fail = SetupSteps[i].mem
          /\ SetupSteps[i].fail \in Stages
          /\ SetupSteps[i].error \in {"allocation", "ssl"}
          /\ SetupSteps[i].makes = "ctx" <=> i = 1
          /\ SetupSteps[i].makes = "ssl" <=> i = 5
  BY DEF SetupSteps, Stages

(* The results an attempt can be given. *)
LEMMA Records ==
    /\ NoFailure \in Results
    /\ \A s \in Stages, e \in Errors, t \in BOOLEAN :
          [stage |-> s, error |-> e, timed_out |-> t] \in Results
  BY DEF NoFailure, Results, Stages, Errors

LEMMA InitInv == Init => IInv
  <1> SUFFICES ASSUME Init PROVE IInv
    OBVIOUS
  <1>1. MainType
    BY Sequences, Rows DEF Init, MainType
  <1>2. FlagType
    BY DEF Init, FlagType
  <1>3. CountType
    BY TlsTransportAssumption DEF Init, CountType
  <1>4. StageType
    BY Records DEF Init, StageType
  <1>5. PcbInv
    BY DEF Init, PcbInv
  <1>6. ConnInv
    BY DEF Init, ConnInv
  <1>7. SslInv
    BY DEF Init, SslInv, InWolf
  <1>8. ControlInv
    BY DEF Init, ControlInv, InWolf
  <1>9. StreamInv /\ TimeoutInv /\ ScopeInv /\ CountInv /\ MemInv
    BY DEF Init, StreamInv, EndOfStreamIsFinal, TimeoutInv, IoTimedOutIsLastRead, ScopeInv,
           CountInv, HandshakeCountsExact, MemInv, InWolf, InOperation
  <1> QED
    BY <1>1, <1>2, <1>3, <1>4, <1>5, <1>6, <1>7, <1>8, <1>9 DEF IInv, TypeOK

-----------------------------------------------------------------------------
(* Preservation, one lemma per conjunct of IInv, one case per action. *)

(* The control state keeps its type. *)
LEMMA MainTypeStep == ASSUME IInv, [Next]_vars PROVE MainType'
  <1> USE DEF MainType, ControlInv, InWolf
  <1>0. MainType /\ ControlInv
    BY DEF IInv, TypeOK
  <1>1. CASE Start
    BY <1>0, <1>1, Sequences, Rows DEF Start
  <1>2. CASE Resolve
    BY <1>0, <1>2, Sequences, Rows DEF Resolve, resolve_host, connect_failed
  <1>3. CASE OpenTcp
    BY <1>0, <1>3, Sequences, Rows DEF OpenTcp, connect_failed
  <1>4. CASE WaitTcp
    BY <1>0, <1>4, Sequences, Rows DEF WaitTcp
  <1>5. CASE WaitTcpDeadline
    BY <1>0, <1>5, Sequences, Rows DEF WaitTcpDeadline, connect_failed
  <1>6. CASE CheckTcp
    BY <1>0, <1>6, Sequences, Rows DEF CheckTcp, connect_failed
  <1>7. CASE Setup
    BY <1>0, <1>7, Sequences, Rows DEF Setup, connect_failed
  <1>8. CASE Handshake
    BY <1>0, <1>8, Rows, TlsTransportAssumption DEF Handshake, CallWolf
  <1>9. CASE HandshakeReturns
    BY <1>0, <1>9, Sequences, Rows DEF HandshakeReturns, connect_failed
  <1>10. CASE wssl_send
    BY <1>0, <1>10, Sequences, Rows DEF wssl_send, OperationFails
  <1>11. CASE wssl_send_locked
    BY <1>0, <1>11, Sequences, Rows DEF wssl_send_locked, OperationFails
  <1>12. CASE wssl_recv
    BY <1>0, <1>12, Sequences, Rows DEF wssl_recv
  <1>13. CASE wssl_recv_poll
    BY <1>0, <1>13, Sequences, Rows DEF wssl_recv_poll, OperationFails, AfterData
  <1>14. CASE wssl_recv_deadline
    <2>1. waited' \in Nat
      BY <1>0, <1>14 DEF wssl_recv_deadline
    <2>2. script' \in Seq({"send", "recv"})
      BY <1>0, <1>14, Sequences DEF wssl_recv_deadline, OperationFails
    <2> QED
      BY <1>0, <1>14, <2>1, <2>2 DEF wssl_recv_deadline, OperationFails
  <1>15. CASE IoReturns
    BY <1>0, <1>15, Sequences, Rows DEF IoReturns
  <1>16. CASE CloseShutdown
    BY <1>0, <1>16, Sequences, Rows DEF CloseShutdown, CallWolf
  <1>17. CASE ShutdownReturns
    BY <1>0, <1>17, Sequences, Rows DEF ShutdownReturns
  <1>18. CASE CloseCheckPcb
    BY <1>0, <1>18, Sequences, Rows DEF CloseCheckPcb
  <1>19. CASE CloseDetach
    BY <1>0, <1>19, Sequences, Rows DEF CloseDetach
  <1>20. CASE CloseFree
    BY <1>0, <1>20, Sequences, Rows DEF CloseFree
  <1>21. CASE tls_write
    BY <1>0, <1>21, Sequences, Rows DEF tls_write, CallWolf
  <1>22. CASE tls_read
    BY <1>0, <1>22, Sequences, Rows DEF tls_read, CallWolf
  <1>23. CASE tls_close
    BY <1>0, <1>23, Sequences, Rows DEF tls_close
  <1>24. CASE on_recv
    BY <1>0, <1>24, Sequences, Rows DEF on_recv
  <1>25. CASE on_recv_closed
    BY <1>0, <1>25, Sequences, Rows DEF on_recv_closed
  <1>26. CASE on_err
    BY <1>0, <1>26, Sequences, Rows DEF on_err
  <1>27. CASE Halted
    BY <1>0, <1>27, Sequences, Rows DEF Halted, vars
  <1>28. CASE \E err \in ConnErrs : on_connected(err)
    BY <1>0, <1>28, Sequences, Rows DEF on_connected
  <1>29. CASE UNCHANGED vars
    BY <1>0, <1>29, Sequences, Rows DEF vars
  <1> QED
    BY <1>1, <1>2, <1>3, <1>4, <1>5, <1>6, <1>7, <1>8, <1>9, <1>10, <1>11, <1>12, <1>13, <1>14,
       <1>15, <1>16, <1>17, <1>18, <1>19, <1>20, <1>21, <1>22, <1>23, <1>24, <1>25, <1>26, <1>27, <1>28,
       <1>29
       DEF Next, Connect, InOut, Closing, Application, Callback

(* The flags stay Booleans. *)
LEMMA FlagTypeStep == ASSUME IInv, [Next]_vars PROVE FlagType'
  <1> USE DEF FlagType
  <1>0. FlagType
    BY DEF IInv, TypeOK
  <1>1. CASE Start
    BY <1>0, <1>1 DEF Start
  <1>2. CASE Resolve
    BY <1>0, <1>2 DEF Resolve, resolve_host, connect_failed
  <1>3. CASE OpenTcp
    BY <1>0, <1>3 DEF OpenTcp, connect_failed
  <1>4. CASE WaitTcp
    BY <1>0, <1>4 DEF WaitTcp
  <1>5. CASE WaitTcpDeadline
    BY <1>0, <1>5 DEF WaitTcpDeadline, connect_failed
  <1>6. CASE CheckTcp
    BY <1>0, <1>6 DEF CheckTcp, connect_failed
  <1>7. CASE Setup
    BY <1>0, <1>7 DEF Setup, connect_failed
  <1>8. CASE Handshake
    BY <1>0, <1>8 DEF Handshake, CallWolf
  <1>9. CASE HandshakeReturns
    BY <1>0, <1>9 DEF HandshakeReturns, connect_failed
  <1>10. CASE wssl_send
    BY <1>0, <1>10 DEF wssl_send, OperationFails
  <1>11. CASE wssl_send_locked
    BY <1>0, <1>11 DEF wssl_send_locked, OperationFails
  <1>12. CASE wssl_recv
    BY <1>0, <1>12 DEF wssl_recv
  <1>13. CASE wssl_recv_poll
    <2>1. bad' \in BOOLEAN
      BY <1>0, <1>13 DEF wssl_recv_poll, OperationFails, AfterData
    <2> QED
      BY <1>0, <1>13, <2>1 DEF wssl_recv_poll
  <1>14. CASE wssl_recv_deadline
    <2>1. bad' \in BOOLEAN /\ io_timed_out' \in BOOLEAN
      BY <1>0, <1>14 DEF wssl_recv_deadline, OperationFails
    <2> QED
      BY <1>0, <1>14, <2>1 DEF wssl_recv_deadline
  <1>15. CASE IoReturns
    BY <1>0, <1>15 DEF IoReturns
  <1>16. CASE CloseShutdown
    BY <1>0, <1>16 DEF CloseShutdown, CallWolf
  <1>17. CASE ShutdownReturns
    BY <1>0, <1>17 DEF ShutdownReturns
  <1>18. CASE CloseCheckPcb
    BY <1>0, <1>18 DEF CloseCheckPcb
  <1>19. CASE CloseDetach
    BY <1>0, <1>19 DEF CloseDetach
  <1>20. CASE CloseFree
    BY <1>0, <1>20 DEF CloseFree
  <1>21. CASE tls_write
    BY <1>0, <1>21 DEF tls_write, CallWolf
  <1>22. CASE tls_read
    BY <1>0, <1>22 DEF tls_read, CallWolf
  <1>23. CASE tls_close
    BY <1>0, <1>23 DEF tls_close
  <1>24. CASE on_recv
    BY <1>0, <1>24 DEF on_recv
  <1>25. CASE on_recv_closed
    BY <1>0, <1>25 DEF on_recv_closed
  <1>26. CASE on_err
    BY <1>0, <1>26 DEF on_err
  <1>27. CASE Halted
    BY <1>0, <1>27 DEF Halted, vars
  <1>28. CASE \E err \in ConnErrs : on_connected(err)
    BY <1>0, <1>28 DEF on_connected
  <1>29. CASE UNCHANGED vars
    BY <1>0, <1>29 DEF vars
  <1> QED
    BY <1>1, <1>2, <1>3, <1>4, <1>5, <1>6, <1>7, <1>8, <1>9, <1>10, <1>11, <1>12, <1>13, <1>14,
       <1>15, <1>16, <1>17, <1>18, <1>19, <1>20, <1>21, <1>22, <1>23, <1>24, <1>25, <1>26, <1>27, <1>28,
       <1>29
       DEF Next, Connect, InOut, Closing, Application, Callback

(* The ring and the counters keep their ranges. *)
LEMMA CountTypeStep == ASSUME IInv, [Next]_vars PROVE CountType'
  <1> USE DEF CountType
  <1>0. CountType /\ MainType
    BY DEF IInv, TypeOK
  <1>1. CASE Start
    BY <1>0, <1>1, TlsTransportAssumption DEF Start
  <1>2. CASE Resolve
    BY <1>0, <1>2, TlsTransportAssumption DEF Resolve, resolve_host, connect_failed
  <1>3. CASE OpenTcp
    BY <1>0, <1>3, TlsTransportAssumption DEF OpenTcp, connect_failed
  <1>4. CASE WaitTcp
    BY <1>0, <1>4, TlsTransportAssumption DEF WaitTcp
  <1>5. CASE WaitTcpDeadline
    BY <1>0, <1>5, TlsTransportAssumption DEF WaitTcpDeadline, connect_failed
  <1>6. CASE CheckTcp
    BY <1>0, <1>6, TlsTransportAssumption DEF CheckTcp, connect_failed
  <1>7. CASE Setup
    BY <1>0, <1>7, TlsTransportAssumption DEF Setup, connect_failed
  <1>8. CASE Handshake
    BY <1>0, <1>8, TlsTransportAssumption DEF Handshake, CallWolf
  <1>9. CASE HandshakeReturns
    BY <1>0, <1>9, TlsTransportAssumption DEF HandshakeReturns, connect_failed
  <1>10. CASE wssl_send
    BY <1>0, <1>10, TlsTransportAssumption DEF wssl_send, OperationFails
  <1>11. CASE wssl_send_locked
    BY <1>0, <1>11, TlsTransportAssumption DEF wssl_send_locked, OperationFails
  <1>12. CASE wssl_recv
    BY <1>0, <1>12, TlsTransportAssumption DEF wssl_recv
  <1>13. CASE wssl_recv_poll
    <2>1. ring' \in 0..RingCap
      BY <1>0, <1>13, TlsTransportAssumption DEF wssl_recv_poll
    <2>2. hs_rx_calls' \in Nat
      BY <1>0, <1>13 DEF wssl_recv_poll
    <2>3. hs_net_wait_us' \in Nat
      BY <1>0, <1>13 DEF wssl_recv_poll, MainType
    <2> QED
      BY <1>0, <1>13, <2>1, <2>2, <2>3 DEF wssl_recv_poll
  <1>14. CASE wssl_recv_deadline
    BY <1>0, <1>14, TlsTransportAssumption DEF wssl_recv_deadline, OperationFails
  <1>15. CASE IoReturns
    BY <1>0, <1>15, TlsTransportAssumption DEF IoReturns
  <1>16. CASE CloseShutdown
    BY <1>0, <1>16, TlsTransportAssumption DEF CloseShutdown, CallWolf
  <1>17. CASE ShutdownReturns
    BY <1>0, <1>17, TlsTransportAssumption DEF ShutdownReturns
  <1>18. CASE CloseCheckPcb
    BY <1>0, <1>18, TlsTransportAssumption DEF CloseCheckPcb
  <1>19. CASE CloseDetach
    BY <1>0, <1>19, TlsTransportAssumption DEF CloseDetach
  <1>20. CASE CloseFree
    BY <1>0, <1>20, TlsTransportAssumption DEF CloseFree
  <1>21. CASE tls_write
    BY <1>0, <1>21, TlsTransportAssumption DEF tls_write, CallWolf
  <1>22. CASE tls_read
    BY <1>0, <1>22, TlsTransportAssumption DEF tls_read, CallWolf
  <1>23. CASE tls_close
    BY <1>0, <1>23, TlsTransportAssumption DEF tls_close
  <1>24. CASE on_recv
    BY <1>0, <1>24, TlsTransportAssumption DEF on_recv
  <1>25. CASE on_recv_closed
    BY <1>0, <1>25, TlsTransportAssumption DEF on_recv_closed
  <1>26. CASE on_err
    BY <1>0, <1>26, TlsTransportAssumption DEF on_err
  <1>27. CASE Halted
    BY <1>0, <1>27, TlsTransportAssumption DEF Halted, vars
  <1>28. CASE \E err \in ConnErrs : on_connected(err)
    BY <1>0, <1>28, TlsTransportAssumption DEF on_connected
  <1>29. CASE UNCHANGED vars
    BY <1>0, <1>29, TlsTransportAssumption DEF vars
  <1> QED
    BY <1>1, <1>2, <1>3, <1>4, <1>5, <1>6, <1>7, <1>8, <1>9, <1>10, <1>11, <1>12, <1>13, <1>14,
       <1>15, <1>16, <1>17, <1>18, <1>19, <1>20, <1>21, <1>22, <1>23, <1>24, <1>25, <1>26, <1>27, <1>28,
       <1>29
       DEF Next, Connect, InOut, Closing, Application, Callback

(* Stages, errors and results stay in their sets. *)
LEMMA StageTypeStep == ASSUME IInv, [Next]_vars PROVE StageType'
  <1> USE DEF StageType
  <1>0. StageType /\ MainType /\ FlagType
    BY DEF IInv, TypeOK
  <1>1. CASE Start
    BY <1>0, <1>1, Records DEF Start, Stages, Errors
  <1>2. CASE Resolve
    BY <1>0, <1>2, Records DEF Resolve, resolve_host, connect_failed, Stages, Errors
  <1>3. CASE OpenTcp
    BY <1>0, <1>3, Records DEF OpenTcp, connect_failed, Stages, Errors
  <1>4. CASE WaitTcp
    BY <1>0, <1>4, Records DEF WaitTcp
  <1>5. CASE WaitTcpDeadline
    BY <1>0, <1>5, Records DEF WaitTcpDeadline, connect_failed, Stages, Errors
  <1>6. CASE CheckTcp
    BY <1>0, <1>6, Records DEF CheckTcp, connect_failed, Stages, Errors
  <1>7. CASE Setup
    <2>1. step \in 1..7
      BY <1>0, Rows DEF MainType
    <2>2. mem_stage' \in Stages /\ SetupSteps[step].fail \in Stages
          /\ SetupSteps[step].error \in Errors
      BY <1>0, <1>7, <2>1, Rows DEF Setup, Errors
    <2>3. result' \in Results
      BY <1>0, <1>7, <2>2, Records DEF Setup, connect_failed
    <2> QED
      BY <1>0, <1>7, <2>2, <2>3 DEF Setup
  <1>8. CASE Handshake
    BY <1>0, <1>8 DEF Handshake, CallWolf, Stages
  <1>9. CASE HandshakeReturns
    <2>1. "tls_handshake" \in Stages /\ {"timeout", "ssl"} \subseteq Errors
      BY DEF Stages, Errors
    <2>2. io_timed_out \in BOOLEAN
      BY <1>0 DEF FlagType
    <2>3. result' \in Results
      BY <1>0, <1>9, <2>1, <2>2, Records DEF HandshakeReturns, connect_failed
    <2> QED
      BY <1>0, <1>9, <2>3 DEF HandshakeReturns
  <1>10. CASE wssl_send
    BY <1>0, <1>10, Records DEF wssl_send, OperationFails
  <1>11. CASE wssl_send_locked
    BY <1>0, <1>11, Records DEF wssl_send_locked, OperationFails
  <1>12. CASE wssl_recv
    BY <1>0, <1>12, Records DEF wssl_recv
  <1>13. CASE wssl_recv_poll
    BY <1>0, <1>13, Records DEF wssl_recv_poll, OperationFails, AfterData
  <1>14. CASE wssl_recv_deadline
    BY <1>0, <1>14, Records DEF wssl_recv_deadline, OperationFails
  <1>15. CASE IoReturns
    BY <1>0, <1>15, Records DEF IoReturns
  <1>16. CASE CloseShutdown
    BY <1>0, <1>16, Records DEF CloseShutdown, CallWolf
  <1>17. CASE ShutdownReturns
    BY <1>0, <1>17, Records DEF ShutdownReturns
  <1>18. CASE CloseCheckPcb
    BY <1>0, <1>18, Records DEF CloseCheckPcb
  <1>19. CASE CloseDetach
    BY <1>0, <1>19, Records DEF CloseDetach
  <1>20. CASE CloseFree
    BY <1>0, <1>20, Records DEF CloseFree
  <1>21. CASE tls_write
    BY <1>0, <1>21, Records DEF tls_write, CallWolf
  <1>22. CASE tls_read
    BY <1>0, <1>22, Records DEF tls_read, CallWolf
  <1>23. CASE tls_close
    BY <1>0, <1>23, Records DEF tls_close
  <1>24. CASE on_recv
    BY <1>0, <1>24, Records DEF on_recv
  <1>25. CASE on_recv_closed
    BY <1>0, <1>25, Records DEF on_recv_closed
  <1>26. CASE on_err
    BY <1>0, <1>26, Records DEF on_err
  <1>27. CASE Halted
    BY <1>0, <1>27, Records DEF Halted, vars
  <1>28. CASE \E err \in ConnErrs : on_connected(err)
    BY <1>0, <1>28, Records DEF on_connected
  <1>29. CASE UNCHANGED vars
    BY <1>0, <1>29, Records DEF vars
  <1> QED
    BY <1>1, <1>2, <1>3, <1>4, <1>5, <1>6, <1>7, <1>8, <1>9, <1>10, <1>11, <1>12, <1>13, <1>14,
       <1>15, <1>16, <1>17, <1>18, <1>19, <1>20, <1>21, <1>22, <1>23, <1>24, <1>25, <1>26, <1>27, <1>28,
       <1>29
       DEF Next, Connect, InOut, Closing, Application, Callback

(* lwIP and the connection agree on the PCB. *)
LEMMA PcbInvStep == ASSUME IInv, [Next]_vars PROVE PcbInv'
  <1> USE DEF PcbInv
  <1>0. PcbInv
    BY DEF IInv
  <1>1. CASE Start
    BY <1>0, <1>1 DEF Start
  <1>2. CASE Resolve
    BY <1>0, <1>2 DEF Resolve, resolve_host, connect_failed
  <1>3. CASE OpenTcp
    BY <1>0, <1>3 DEF OpenTcp, connect_failed
  <1>4. CASE WaitTcp
    BY <1>0, <1>4 DEF WaitTcp
  <1>5. CASE WaitTcpDeadline
    BY <1>0, <1>5 DEF WaitTcpDeadline, connect_failed
  <1>6. CASE CheckTcp
    BY <1>0, <1>6 DEF CheckTcp, connect_failed
  <1>7. CASE Setup
    BY <1>0, <1>7 DEF Setup, connect_failed
  <1>8. CASE Handshake
    BY <1>0, <1>8 DEF Handshake, CallWolf
  <1>9. CASE HandshakeReturns
    BY <1>0, <1>9 DEF HandshakeReturns, connect_failed
  <1>10. CASE wssl_send
    BY <1>0, <1>10 DEF wssl_send, OperationFails
  <1>11. CASE wssl_send_locked
    BY <1>0, <1>11 DEF wssl_send_locked, OperationFails
  <1>12. CASE wssl_recv
    BY <1>0, <1>12 DEF wssl_recv
  <1>13. CASE wssl_recv_poll
    BY <1>0, <1>13 DEF wssl_recv_poll, OperationFails, AfterData
  <1>14. CASE wssl_recv_deadline
    BY <1>0, <1>14 DEF wssl_recv_deadline, OperationFails
  <1>15. CASE IoReturns
    BY <1>0, <1>15 DEF IoReturns
  <1>16. CASE CloseShutdown
    BY <1>0, <1>16 DEF CloseShutdown, CallWolf
  <1>17. CASE ShutdownReturns
    BY <1>0, <1>17 DEF ShutdownReturns
  <1>18. CASE CloseCheckPcb
    BY <1>0, <1>18 DEF CloseCheckPcb
  <1>19. CASE CloseDetach
    BY <1>0, <1>19 DEF CloseDetach
  <1>20. CASE CloseFree
    BY <1>0, <1>20 DEF CloseFree
  <1>21. CASE tls_write
    BY <1>0, <1>21 DEF tls_write, CallWolf
  <1>22. CASE tls_read
    BY <1>0, <1>22 DEF tls_read, CallWolf
  <1>23. CASE tls_close
    BY <1>0, <1>23 DEF tls_close
  <1>24. CASE on_recv
    BY <1>0, <1>24 DEF on_recv
  <1>25. CASE on_recv_closed
    BY <1>0, <1>25 DEF on_recv_closed
  <1>26. CASE on_err
    BY <1>0, <1>26 DEF on_err
  <1>27. CASE Halted
    BY <1>0, <1>27 DEF Halted, vars
  <1>28. CASE \E err \in ConnErrs : on_connected(err)
    BY <1>0, <1>28 DEF on_connected
  <1>29. CASE UNCHANGED vars
    BY <1>0, <1>29 DEF vars
  <1> QED
    BY <1>1, <1>2, <1>3, <1>4, <1>5, <1>6, <1>7, <1>8, <1>9, <1>10, <1>11, <1>12, <1>13, <1>14,
       <1>15, <1>16, <1>17, <1>18, <1>19, <1>20, <1>21, <1>22, <1>23, <1>24, <1>25, <1>26, <1>27, <1>28,
       <1>29
       DEF Next, Connect, InOut, Closing, Application, Callback

(* The structure is allocated from Start to CloseFree. *)
LEMMA ConnInvStep == ASSUME IInv, [Next]_vars PROVE ConnInv'
  <1> USE DEF ConnInv
  <1>0. ConnInv
    BY DEF IInv
  <1>1. CASE Start
    BY <1>0, <1>1 DEF Start
  <1>2. CASE Resolve
    BY <1>0, <1>2 DEF Resolve, resolve_host, connect_failed
  <1>3. CASE OpenTcp
    BY <1>0, <1>3 DEF OpenTcp, connect_failed
  <1>4. CASE WaitTcp
    BY <1>0, <1>4 DEF WaitTcp
  <1>5. CASE WaitTcpDeadline
    BY <1>0, <1>5 DEF WaitTcpDeadline, connect_failed
  <1>6. CASE CheckTcp
    BY <1>0, <1>6 DEF CheckTcp, connect_failed
  <1>7. CASE Setup
    BY <1>0, <1>7 DEF Setup, connect_failed
  <1>8. CASE Handshake
    BY <1>0, <1>8 DEF Handshake, CallWolf
  <1>9. CASE HandshakeReturns
    BY <1>0, <1>9 DEF HandshakeReturns, connect_failed
  <1>10. CASE wssl_send
    BY <1>0, <1>10 DEF wssl_send, OperationFails
  <1>11. CASE wssl_send_locked
    BY <1>0, <1>11 DEF wssl_send_locked, OperationFails
  <1>12. CASE wssl_recv
    BY <1>0, <1>12 DEF wssl_recv
  <1>13. CASE wssl_recv_poll
    BY <1>0, <1>13 DEF wssl_recv_poll, OperationFails, AfterData
  <1>14. CASE wssl_recv_deadline
    BY <1>0, <1>14 DEF wssl_recv_deadline, OperationFails
  <1>15. CASE IoReturns
    BY <1>0, <1>15 DEF IoReturns
  <1>16. CASE CloseShutdown
    BY <1>0, <1>16 DEF CloseShutdown, CallWolf
  <1>17. CASE ShutdownReturns
    BY <1>0, <1>17 DEF ShutdownReturns
  <1>18. CASE CloseCheckPcb
    BY <1>0, <1>18 DEF CloseCheckPcb
  <1>19. CASE CloseDetach
    BY <1>0, <1>19 DEF CloseDetach
  <1>20. CASE CloseFree
    BY <1>0, <1>20 DEF CloseFree
  <1>21. CASE tls_write
    BY <1>0, <1>21 DEF tls_write, CallWolf
  <1>22. CASE tls_read
    BY <1>0, <1>22 DEF tls_read, CallWolf
  <1>23. CASE tls_close
    BY <1>0, <1>23 DEF tls_close
  <1>24. CASE on_recv
    BY <1>0, <1>24 DEF on_recv
  <1>25. CASE on_recv_closed
    BY <1>0, <1>25 DEF on_recv_closed
  <1>26. CASE on_err
    BY <1>0, <1>26 DEF on_err
  <1>27. CASE Halted
    BY <1>0, <1>27 DEF Halted, vars
  <1>28. CASE \E err \in ConnErrs : on_connected(err)
    BY <1>0, <1>28 DEF on_connected
  <1>29. CASE UNCHANGED vars
    BY <1>0, <1>29 DEF vars
  <1> QED
    BY <1>1, <1>2, <1>3, <1>4, <1>5, <1>6, <1>7, <1>8, <1>9, <1>10, <1>11, <1>12, <1>13, <1>14,
       <1>15, <1>16, <1>17, <1>18, <1>19, <1>20, <1>21, <1>22, <1>23, <1>24, <1>25, <1>26, <1>27, <1>28,
       <1>29
       DEF Next, Connect, InOut, Closing, Application, Callback

(* The wolfSSL objects exist where they are used. *)
LEMMA SslInvStep == ASSUME IInv, [Next]_vars PROVE SslInv'
  <1> USE DEF SslInv, InWolf
  <1>0. SslInv /\ MainType /\ FlagType
    BY DEF IInv, TypeOK
  <1>1. CASE Start
    BY <1>0, <1>1, Rows DEF Start
  <1>2. CASE Resolve
    BY <1>0, <1>2, Rows DEF Resolve, resolve_host, connect_failed
  <1>3. CASE OpenTcp
    BY <1>0, <1>3, Rows DEF OpenTcp, connect_failed
  <1>4. CASE WaitTcp
    BY <1>0, <1>4, Rows DEF WaitTcp
  <1>5. CASE WaitTcpDeadline
    BY <1>0, <1>5, Rows DEF WaitTcpDeadline, connect_failed
  <1>6. CASE CheckTcp
    BY <1>0, <1>6, Rows DEF CheckTcp, connect_failed
  <1>7. CASE Setup
    <2>1. step \in 1..7
      BY <1>0, Rows DEF MainType
    <2>2. CASE connect_failed(SetupSteps[step].fail, SetupSteps[step].error, FALSE)
      BY <1>0, <1>7, <2>2 DEF Setup, connect_failed
    <2>3. CASE ~connect_failed(SetupSteps[step].fail, SetupSteps[step].error, FALSE)
      <3>1. /\ ssl_ctx' <=> ssl_ctx \/ SetupSteps[step].makes = "ctx"
            /\ ssl' <=> ssl \/ SetupSteps[step].makes = "ssl"
        BY <1>0, <1>7, <2>3 DEF Setup
      <3>2. (ssl_ctx' <=> ssl_ctx \/ step = 1) /\ (ssl' <=> ssl \/ step = 5)
        BY <3>1, <2>1, Rows
      <3>3. (ssl_ctx <=> step > 1) /\ (ssl <=> step > 5)
        BY <1>0, <1>7 DEF Setup
      <3>4. ssl_ctx' /\ (ssl' <=> step >= 5)
        BY <2>1, <3>2, <3>3
      <3>5. \/ step = 7 /\ pc' = "handshake" /\ step' = 1
            \/ step \in 1..6 /\ pc' = "setup" /\ step' = step + 1
        <4>1. Len(SetupSteps) = 7
          BY Rows
        <4>2. /\ pc' = IF step = 7 THEN "handshake" ELSE "setup"
              /\ step' = IF step = 7 THEN 1 ELSE step + 1
          BY <1>0, <1>7, <4>1, <2>3 DEF Setup
        <4> QED
          BY <4>2, <2>1
      <3> QED
        BY <2>1, <3>4, <3>5
    <2> QED
      BY <2>2, <2>3
  <1>8. CASE Handshake
    BY <1>0, <1>8, Rows DEF Handshake, CallWolf
  <1>9. CASE HandshakeReturns
    BY <1>0, <1>9, Rows DEF HandshakeReturns, connect_failed
  <1>10. CASE wssl_send
    BY <1>0, <1>10, Rows DEF wssl_send, OperationFails
  <1>11. CASE wssl_send_locked
    BY <1>0, <1>11, Rows DEF wssl_send_locked, OperationFails
  <1>12. CASE wssl_recv
    BY <1>0, <1>12, Rows DEF wssl_recv
  <1>13. CASE wssl_recv_poll
    BY <1>0, <1>13, Rows DEF wssl_recv_poll, OperationFails, AfterData
  <1>14. CASE wssl_recv_deadline
    BY <1>0, <1>14, Rows DEF wssl_recv_deadline, OperationFails
  <1>15. CASE IoReturns
    BY <1>0, <1>15, Rows DEF IoReturns
  <1>16. CASE CloseShutdown
    <2>1. CASE ssl
      BY <1>0, <1>16, <2>1 DEF CloseShutdown, CallWolf
    <2>2. CASE ~ssl
      BY <1>0, <1>16, <2>2 DEF CloseShutdown, CallWolf
    <2> QED
      BY <2>1, <2>2
  <1>17. CASE ShutdownReturns
    BY <1>0, <1>17, Rows DEF ShutdownReturns
  <1>18. CASE CloseCheckPcb
    BY <1>0, <1>18, Rows DEF CloseCheckPcb
  <1>19. CASE CloseDetach
    BY <1>0, <1>19, Rows DEF CloseDetach
  <1>20. CASE CloseFree
    BY <1>0, <1>20, Rows DEF CloseFree
  <1>21. CASE tls_write
    BY <1>0, <1>21, Rows DEF tls_write, CallWolf
  <1>22. CASE tls_read
    BY <1>0, <1>22, Rows DEF tls_read, CallWolf
  <1>23. CASE tls_close
    BY <1>0, <1>23, Rows DEF tls_close
  <1>24. CASE on_recv
    BY <1>0, <1>24, Rows DEF on_recv
  <1>25. CASE on_recv_closed
    BY <1>0, <1>25, Rows DEF on_recv_closed
  <1>26. CASE on_err
    BY <1>0, <1>26, Rows DEF on_err
  <1>27. CASE Halted
    BY <1>0, <1>27, Rows DEF Halted, vars
  <1>28. CASE \E err \in ConnErrs : on_connected(err)
    BY <1>0, <1>28, Rows DEF on_connected
  <1>29. CASE UNCHANGED vars
    BY <1>0, <1>29, Rows DEF vars
  <1> QED
    BY <1>1, <1>2, <1>3, <1>4, <1>5, <1>6, <1>7, <1>8, <1>9, <1>10, <1>11, <1>12, <1>13, <1>14,
       <1>15, <1>16, <1>17, <1>18, <1>19, <1>20, <1>21, <1>22, <1>23, <1>24, <1>25, <1>26, <1>27, <1>28,
       <1>29
       DEF Next, Connect, InOut, Closing, Application, Callback

(* The control points agree with the operation in progress. *)
LEMMA ControlInvStep == ASSUME IInv, [Next]_vars PROVE ControlInv'
  <1> USE DEF ControlInv, InWolf
  <1>0. ControlInv
    BY DEF IInv
  <1>1. CASE Start
    BY <1>0, <1>1, Sequences DEF Start
  <1>2. CASE Resolve
    BY <1>0, <1>2, Sequences DEF Resolve, resolve_host, connect_failed
  <1>3. CASE OpenTcp
    BY <1>0, <1>3, Sequences DEF OpenTcp, connect_failed
  <1>4. CASE WaitTcp
    BY <1>0, <1>4, Sequences DEF WaitTcp
  <1>5. CASE WaitTcpDeadline
    BY <1>0, <1>5, Sequences DEF WaitTcpDeadline, connect_failed
  <1>6. CASE CheckTcp
    BY <1>0, <1>6, Sequences DEF CheckTcp, connect_failed
  <1>7. CASE Setup
    BY <1>0, <1>7, Sequences DEF Setup, connect_failed
  <1>8. CASE Handshake
    BY <1>0, <1>8, Sequences DEF Handshake, CallWolf
  <1>9. CASE HandshakeReturns
    BY <1>0, <1>9, Sequences DEF HandshakeReturns, connect_failed
  <1>10. CASE wssl_send
    BY <1>0, <1>10, Sequences DEF wssl_send, OperationFails
  <1>11. CASE wssl_send_locked
    BY <1>0, <1>11, Sequences DEF wssl_send_locked, OperationFails
  <1>12. CASE wssl_recv
    BY <1>0, <1>12, Sequences DEF wssl_recv
  <1>13. CASE wssl_recv_poll
    BY <1>0, <1>13, Sequences DEF wssl_recv_poll, OperationFails, AfterData
  <1>14. CASE wssl_recv_deadline
    BY <1>0, <1>14, Sequences DEF wssl_recv_deadline, OperationFails
  <1>15. CASE IoReturns
    BY <1>0, <1>15, Sequences DEF IoReturns
  <1>16. CASE CloseShutdown
    BY <1>0, <1>16, Sequences DEF CloseShutdown, CallWolf
  <1>17. CASE ShutdownReturns
    BY <1>0, <1>17, Sequences DEF ShutdownReturns
  <1>18. CASE CloseCheckPcb
    BY <1>0, <1>18, Sequences DEF CloseCheckPcb
  <1>19. CASE CloseDetach
    BY <1>0, <1>19, Sequences DEF CloseDetach
  <1>20. CASE CloseFree
    BY <1>0, <1>20, Sequences DEF CloseFree
  <1>21. CASE tls_write
    BY <1>0, <1>21, Sequences DEF tls_write, CallWolf
  <1>22. CASE tls_read
    BY <1>0, <1>22, Sequences DEF tls_read, CallWolf
  <1>23. CASE tls_close
    BY <1>0, <1>23, Sequences DEF tls_close
  <1>24. CASE on_recv
    BY <1>0, <1>24, Sequences DEF on_recv
  <1>25. CASE on_recv_closed
    BY <1>0, <1>25, Sequences DEF on_recv_closed
  <1>26. CASE on_err
    BY <1>0, <1>26, Sequences DEF on_err
  <1>27. CASE Halted
    BY <1>0, <1>27, Sequences DEF Halted, vars
  <1>28. CASE \E err \in ConnErrs : on_connected(err)
    BY <1>0, <1>28, Sequences DEF on_connected
  <1>29. CASE UNCHANGED vars
    BY <1>0, <1>29, Sequences DEF vars
  <1> QED
    BY <1>1, <1>2, <1>3, <1>4, <1>5, <1>6, <1>7, <1>8, <1>9, <1>10, <1>11, <1>12, <1>13, <1>14,
       <1>15, <1>16, <1>17, <1>18, <1>19, <1>20, <1>21, <1>22, <1>23, <1>24, <1>25, <1>26, <1>27, <1>28,
       <1>29
       DEF Next, Connect, InOut, Closing, Application, Callback

(* The end of a connection is final. *)
LEMMA StreamInvStep == ASSUME IInv, [Next]_vars PROVE StreamInv'
  <1> USE DEF StreamInv, PcbInv, EndOfStreamIsFinal, Closed
  <1>0. StreamInv /\ PcbInv /\ CountType
    BY DEF IInv, TypeOK
  <1>1. CASE Start
    BY <1>0, <1>1, TlsTransportAssumption DEF Start
  <1>2. CASE Resolve
    BY <1>0, <1>2, TlsTransportAssumption DEF Resolve, resolve_host, connect_failed
  <1>3. CASE OpenTcp
    BY <1>0, <1>3, TlsTransportAssumption DEF OpenTcp, connect_failed
  <1>4. CASE WaitTcp
    BY <1>0, <1>4, TlsTransportAssumption DEF WaitTcp
  <1>5. CASE WaitTcpDeadline
    BY <1>0, <1>5, TlsTransportAssumption DEF WaitTcpDeadline, connect_failed
  <1>6. CASE CheckTcp
    BY <1>0, <1>6, TlsTransportAssumption DEF CheckTcp, connect_failed
  <1>7. CASE Setup
    BY <1>0, <1>7, TlsTransportAssumption DEF Setup, connect_failed
  <1>8. CASE Handshake
    BY <1>0, <1>8, TlsTransportAssumption DEF Handshake, CallWolf
  <1>9. CASE HandshakeReturns
    BY <1>0, <1>9, TlsTransportAssumption DEF HandshakeReturns, connect_failed
  <1>10. CASE wssl_send
    BY <1>0, <1>10, TlsTransportAssumption DEF wssl_send, OperationFails
  <1>11. CASE wssl_send_locked
    BY <1>0, <1>11, TlsTransportAssumption DEF wssl_send_locked, OperationFails
  <1>12. CASE wssl_recv
    BY <1>0, <1>12, TlsTransportAssumption DEF wssl_recv
  <1>13. CASE wssl_recv_poll
    BY <1>0, <1>13, TlsTransportAssumption DEF wssl_recv_poll, OperationFails, AfterData
  <1>14. CASE wssl_recv_deadline
    BY <1>0, <1>14, TlsTransportAssumption DEF wssl_recv_deadline, OperationFails
  <1>15. CASE IoReturns
    BY <1>0, <1>15, TlsTransportAssumption DEF IoReturns
  <1>16. CASE CloseShutdown
    BY <1>0, <1>16, TlsTransportAssumption DEF CloseShutdown, CallWolf
  <1>17. CASE ShutdownReturns
    BY <1>0, <1>17, TlsTransportAssumption DEF ShutdownReturns
  <1>18. CASE CloseCheckPcb
    BY <1>0, <1>18, TlsTransportAssumption DEF CloseCheckPcb
  <1>19. CASE CloseDetach
    BY <1>0, <1>19, TlsTransportAssumption DEF CloseDetach
  <1>20. CASE CloseFree
    BY <1>0, <1>20, TlsTransportAssumption DEF CloseFree
  <1>21. CASE tls_write
    BY <1>0, <1>21, TlsTransportAssumption DEF tls_write, CallWolf
  <1>22. CASE tls_read
    BY <1>0, <1>22, TlsTransportAssumption DEF tls_read, CallWolf
  <1>23. CASE tls_close
    BY <1>0, <1>23, TlsTransportAssumption DEF tls_close
  <1>24. CASE on_recv
    BY <1>0, <1>24, TlsTransportAssumption DEF on_recv
  <1>25. CASE on_recv_closed
    BY <1>0, <1>25, TlsTransportAssumption DEF on_recv_closed
  <1>26. CASE on_err
    BY <1>0, <1>26, TlsTransportAssumption DEF on_err
  <1>27. CASE Halted
    BY <1>0, <1>27, TlsTransportAssumption DEF Halted, vars
  <1>28. CASE \E err \in ConnErrs : on_connected(err)
    BY <1>0, <1>28, TlsTransportAssumption DEF on_connected
  <1>29. CASE UNCHANGED vars
    BY <1>0, <1>29, TlsTransportAssumption DEF vars
  <1> QED
    BY <1>1, <1>2, <1>3, <1>4, <1>5, <1>6, <1>7, <1>8, <1>9, <1>10, <1>11, <1>12, <1>13, <1>14,
       <1>15, <1>16, <1>17, <1>18, <1>19, <1>20, <1>21, <1>22, <1>23, <1>24, <1>25, <1>26, <1>27, <1>28,
       <1>29
       DEF Next, Connect, InOut, Closing, Application, Callback

(* io_timed_out is about the most recent read. *)
LEMMA TimeoutInvStep == ASSUME IInv, [Next]_vars PROVE TimeoutInv'
  <1> USE DEF TimeoutInv, ConnInv, ControlInv, IoTimedOutIsLastRead, InWolf
  <1>0. TimeoutInv /\ ConnInv /\ ControlInv
    BY DEF IInv
  <1>1. CASE Start
    BY <1>0, <1>1, Sequences DEF Start
  <1>2. CASE Resolve
    BY <1>0, <1>2, Sequences DEF Resolve, resolve_host, connect_failed
  <1>3. CASE OpenTcp
    BY <1>0, <1>3, Sequences DEF OpenTcp, connect_failed
  <1>4. CASE WaitTcp
    BY <1>0, <1>4, Sequences DEF WaitTcp
  <1>5. CASE WaitTcpDeadline
    BY <1>0, <1>5, Sequences DEF WaitTcpDeadline, connect_failed
  <1>6. CASE CheckTcp
    BY <1>0, <1>6, Sequences DEF CheckTcp, connect_failed
  <1>7. CASE Setup
    BY <1>0, <1>7, Sequences DEF Setup, connect_failed
  <1>8. CASE Handshake
    BY <1>0, <1>8, Sequences DEF Handshake, CallWolf
  <1>9. CASE HandshakeReturns
    BY <1>0, <1>9, Sequences DEF HandshakeReturns, connect_failed
  <1>10. CASE wssl_send
    BY <1>0, <1>10, Sequences DEF wssl_send, OperationFails
  <1>11. CASE wssl_send_locked
    BY <1>0, <1>11, Sequences DEF wssl_send_locked, OperationFails, ControlInv
  <1>12. CASE wssl_recv
    BY <1>0, <1>12, Sequences DEF wssl_recv
  <1>13. CASE wssl_recv_poll
    BY <1>0, <1>13, Sequences DEF wssl_recv_poll, OperationFails, AfterData
  <1>14. CASE wssl_recv_deadline
    BY <1>0, <1>14, Sequences DEF wssl_recv_deadline, OperationFails
  <1>15. CASE IoReturns
    BY <1>0, <1>15, Sequences DEF IoReturns
  <1>16. CASE CloseShutdown
    BY <1>0, <1>16, Sequences DEF CloseShutdown, CallWolf
  <1>17. CASE ShutdownReturns
    BY <1>0, <1>17, Sequences DEF ShutdownReturns
  <1>18. CASE CloseCheckPcb
    BY <1>0, <1>18, Sequences DEF CloseCheckPcb
  <1>19. CASE CloseDetach
    BY <1>0, <1>19, Sequences DEF CloseDetach
  <1>20. CASE CloseFree
    BY <1>0, <1>20, Sequences DEF CloseFree
  <1>21. CASE tls_write
    BY <1>0, <1>21, Sequences DEF tls_write, CallWolf
  <1>22. CASE tls_read
    BY <1>0, <1>22, Sequences DEF tls_read, CallWolf
  <1>23. CASE tls_close
    BY <1>0, <1>23, Sequences DEF tls_close
  <1>24. CASE on_recv
    BY <1>0, <1>24, Sequences DEF on_recv
  <1>25. CASE on_recv_closed
    BY <1>0, <1>25, Sequences DEF on_recv_closed
  <1>26. CASE on_err
    BY <1>0, <1>26, Sequences DEF on_err
  <1>27. CASE Halted
    BY <1>0, <1>27, Sequences DEF Halted, vars
  <1>28. CASE \E err \in ConnErrs : on_connected(err)
    BY <1>0, <1>28, Sequences DEF on_connected
  <1>29. CASE UNCHANGED vars
    BY <1>0, <1>29, Sequences DEF vars
  <1> QED
    BY <1>1, <1>2, <1>3, <1>4, <1>5, <1>6, <1>7, <1>8, <1>9, <1>10, <1>11, <1>12, <1>13, <1>14,
       <1>15, <1>16, <1>17, <1>18, <1>19, <1>20, <1>21, <1>22, <1>23, <1>24, <1>25, <1>26, <1>27, <1>28,
       <1>29
       DEF Next, Connect, InOut, Closing, Application, Callback

(* Only the handshake is counted. *)
LEMMA ScopeInvStep == ASSUME IInv, [Next]_vars PROVE ScopeInv'
  <1> USE DEF ScopeInv, InWolf
  <1>0. ScopeInv
    BY DEF IInv
  <1>1. CASE Start
    BY <1>0, <1>1 DEF Start
  <1>2. CASE Resolve
    BY <1>0, <1>2 DEF Resolve, resolve_host, connect_failed
  <1>3. CASE OpenTcp
    BY <1>0, <1>3 DEF OpenTcp, connect_failed
  <1>4. CASE WaitTcp
    BY <1>0, <1>4 DEF WaitTcp
  <1>5. CASE WaitTcpDeadline
    BY <1>0, <1>5 DEF WaitTcpDeadline, connect_failed
  <1>6. CASE CheckTcp
    BY <1>0, <1>6 DEF CheckTcp, connect_failed
  <1>7. CASE Setup
    BY <1>0, <1>7 DEF Setup, connect_failed
  <1>8. CASE Handshake
    BY <1>0, <1>8 DEF Handshake, CallWolf
  <1>9. CASE HandshakeReturns
    BY <1>0, <1>9 DEF HandshakeReturns, connect_failed
  <1>10. CASE wssl_send
    BY <1>0, <1>10 DEF wssl_send, OperationFails
  <1>11. CASE wssl_send_locked
    BY <1>0, <1>11 DEF wssl_send_locked, OperationFails
  <1>12. CASE wssl_recv
    BY <1>0, <1>12 DEF wssl_recv
  <1>13. CASE wssl_recv_poll
    BY <1>0, <1>13 DEF wssl_recv_poll, OperationFails, AfterData
  <1>14. CASE wssl_recv_deadline
    BY <1>0, <1>14 DEF wssl_recv_deadline, OperationFails
  <1>15. CASE IoReturns
    BY <1>0, <1>15 DEF IoReturns
  <1>16. CASE CloseShutdown
    BY <1>0, <1>16 DEF CloseShutdown, CallWolf
  <1>17. CASE ShutdownReturns
    BY <1>0, <1>17 DEF ShutdownReturns
  <1>18. CASE CloseCheckPcb
    BY <1>0, <1>18 DEF CloseCheckPcb
  <1>19. CASE CloseDetach
    BY <1>0, <1>19 DEF CloseDetach
  <1>20. CASE CloseFree
    BY <1>0, <1>20 DEF CloseFree
  <1>21. CASE tls_write
    BY <1>0, <1>21 DEF tls_write, CallWolf
  <1>22. CASE tls_read
    BY <1>0, <1>22 DEF tls_read, CallWolf
  <1>23. CASE tls_close
    BY <1>0, <1>23 DEF tls_close
  <1>24. CASE on_recv
    BY <1>0, <1>24 DEF on_recv
  <1>25. CASE on_recv_closed
    BY <1>0, <1>25 DEF on_recv_closed
  <1>26. CASE on_err
    BY <1>0, <1>26 DEF on_err
  <1>27. CASE Halted
    BY <1>0, <1>27 DEF Halted, vars
  <1>28. CASE \E err \in ConnErrs : on_connected(err)
    BY <1>0, <1>28 DEF on_connected
  <1>29. CASE UNCHANGED vars
    BY <1>0, <1>29 DEF vars
  <1> QED
    BY <1>1, <1>2, <1>3, <1>4, <1>5, <1>6, <1>7, <1>8, <1>9, <1>10, <1>11, <1>12, <1>13, <1>14,
       <1>15, <1>16, <1>17, <1>18, <1>19, <1>20, <1>21, <1>22, <1>23, <1>24, <1>25, <1>26, <1>27, <1>28,
       <1>29
       DEF Next, Connect, InOut, Closing, Application, Callback

(* The counters keep up with the history of the handshake. *)
LEMMA CountInvStep == ASSUME IInv, [Next]_vars PROVE CountInv'
  <1> USE DEF CountInv, ScopeInv, InWolf, InOperation, HandshakeCountsExact, MainType, CountType, NoFailure
  <1>0. CountInv /\ ScopeInv /\ MainType /\ CountType
    BY DEF IInv, TypeOK
  <1>1. CASE Start
    BY <1>0, <1>1 DEF Start
  <1>2. CASE Resolve
    BY <1>0, <1>2 DEF Resolve, resolve_host, connect_failed
  <1>3. CASE OpenTcp
    BY <1>0, <1>3 DEF OpenTcp, connect_failed
  <1>4. CASE WaitTcp
    BY <1>0, <1>4 DEF WaitTcp
  <1>5. CASE WaitTcpDeadline
    BY <1>0, <1>5 DEF WaitTcpDeadline, connect_failed
  <1>6. CASE CheckTcp
    BY <1>0, <1>6 DEF CheckTcp, connect_failed
  <1>7. CASE Setup
    BY <1>0, <1>7 DEF Setup, connect_failed
  <1>8. CASE Handshake
    BY <1>0, <1>8 DEF Handshake, CallWolf
  <1>9. CASE HandshakeReturns
    BY <1>0, <1>9 DEF HandshakeReturns, connect_failed
  <1>10. CASE wssl_send
    BY <1>0, <1>10 DEF wssl_send, OperationFails
  <1>11. CASE wssl_send_locked
    BY <1>0, <1>11 DEF wssl_send_locked, OperationFails
  <1>12. CASE wssl_recv
    BY <1>0, <1>12 DEF wssl_recv
  <1>13. CASE wssl_recv_poll
    BY <1>0, <1>13 DEF wssl_recv_poll, OperationFails, AfterData
  <1>14. CASE wssl_recv_deadline
    BY <1>0, <1>14 DEF wssl_recv_deadline, OperationFails
  <1>15. CASE IoReturns
    BY <1>0, <1>15 DEF IoReturns
  <1>16. CASE CloseShutdown
    BY <1>0, <1>16 DEF CloseShutdown, CallWolf
  <1>17. CASE ShutdownReturns
    BY <1>0, <1>17 DEF ShutdownReturns
  <1>18. CASE CloseCheckPcb
    BY <1>0, <1>18 DEF CloseCheckPcb
  <1>19. CASE CloseDetach
    BY <1>0, <1>19 DEF CloseDetach
  <1>20. CASE CloseFree
    BY <1>0, <1>20 DEF CloseFree
  <1>21. CASE tls_write
    BY <1>0, <1>21 DEF tls_write, CallWolf
  <1>22. CASE tls_read
    BY <1>0, <1>22 DEF tls_read, CallWolf
  <1>23. CASE tls_close
    BY <1>0, <1>23 DEF tls_close
  <1>24. CASE on_recv
    BY <1>0, <1>24 DEF on_recv
  <1>25. CASE on_recv_closed
    BY <1>0, <1>25 DEF on_recv_closed
  <1>26. CASE on_err
    BY <1>0, <1>26 DEF on_err
  <1>27. CASE Halted
    BY <1>0, <1>27 DEF Halted, vars
  <1>28. CASE \E err \in ConnErrs : on_connected(err)
    BY <1>0, <1>28 DEF on_connected
  <1>29. CASE UNCHANGED vars
    BY <1>0, <1>29 DEF vars
  <1> QED
    BY <1>1, <1>2, <1>3, <1>4, <1>5, <1>6, <1>7, <1>8, <1>9, <1>10, <1>11, <1>12, <1>13, <1>14,
       <1>15, <1>16, <1>17, <1>18, <1>19, <1>20, <1>21, <1>22, <1>23, <1>24, <1>25, <1>26, <1>27, <1>28,
       <1>29
       DEF Next, Connect, InOut, Closing, Application, Callback

(* The memory stage follows the attempt. *)
LEMMA MemInvStep == ASSUME IInv, [Next]_vars PROVE MemInv'
  <1> USE DEF MemInv, InWolf
  <1>0. MemInv
    BY DEF IInv
  <1>1. CASE Start
    BY <1>0, <1>1 DEF Start
  <1>2. CASE Resolve
    BY <1>0, <1>2 DEF Resolve, resolve_host, connect_failed
  <1>3. CASE OpenTcp
    BY <1>0, <1>3 DEF OpenTcp, connect_failed
  <1>4. CASE WaitTcp
    BY <1>0, <1>4 DEF WaitTcp
  <1>5. CASE WaitTcpDeadline
    BY <1>0, <1>5 DEF WaitTcpDeadline, connect_failed
  <1>6. CASE CheckTcp
    BY <1>0, <1>6 DEF CheckTcp, connect_failed
  <1>7. CASE Setup
    BY <1>0, <1>7 DEF Setup, connect_failed
  <1>8. CASE Handshake
    BY <1>0, <1>8 DEF Handshake, CallWolf
  <1>9. CASE HandshakeReturns
    BY <1>0, <1>9 DEF HandshakeReturns, connect_failed
  <1>10. CASE wssl_send
    BY <1>0, <1>10 DEF wssl_send, OperationFails
  <1>11. CASE wssl_send_locked
    BY <1>0, <1>11 DEF wssl_send_locked, OperationFails
  <1>12. CASE wssl_recv
    BY <1>0, <1>12 DEF wssl_recv
  <1>13. CASE wssl_recv_poll
    BY <1>0, <1>13 DEF wssl_recv_poll, OperationFails, AfterData
  <1>14. CASE wssl_recv_deadline
    BY <1>0, <1>14 DEF wssl_recv_deadline, OperationFails
  <1>15. CASE IoReturns
    BY <1>0, <1>15 DEF IoReturns
  <1>16. CASE CloseShutdown
    BY <1>0, <1>16 DEF CloseShutdown, CallWolf
  <1>17. CASE ShutdownReturns
    BY <1>0, <1>17 DEF ShutdownReturns
  <1>18. CASE CloseCheckPcb
    BY <1>0, <1>18 DEF CloseCheckPcb
  <1>19. CASE CloseDetach
    BY <1>0, <1>19 DEF CloseDetach
  <1>20. CASE CloseFree
    BY <1>0, <1>20 DEF CloseFree
  <1>21. CASE tls_write
    BY <1>0, <1>21 DEF tls_write, CallWolf
  <1>22. CASE tls_read
    BY <1>0, <1>22 DEF tls_read, CallWolf
  <1>23. CASE tls_close
    BY <1>0, <1>23 DEF tls_close
  <1>24. CASE on_recv
    BY <1>0, <1>24 DEF on_recv
  <1>25. CASE on_recv_closed
    BY <1>0, <1>25 DEF on_recv_closed
  <1>26. CASE on_err
    BY <1>0, <1>26 DEF on_err
  <1>27. CASE Halted
    BY <1>0, <1>27 DEF Halted, vars
  <1>28. CASE \E err \in ConnErrs : on_connected(err)
    BY <1>0, <1>28 DEF on_connected
  <1>29. CASE UNCHANGED vars
    BY <1>0, <1>29 DEF vars
  <1> QED
    BY <1>1, <1>2, <1>3, <1>4, <1>5, <1>6, <1>7, <1>8, <1>9, <1>10, <1>11, <1>12, <1>13, <1>14,
       <1>15, <1>16, <1>17, <1>18, <1>19, <1>20, <1>21, <1>22, <1>23, <1>24, <1>25, <1>26, <1>27, <1>28,
       <1>29
       DEF Next, Connect, InOut, Closing, Application, Callback

(* Action properties and the abstract contract, step by step. *)

(* A failure is reported with the stage the monitor is in. *)
LEMMA FailureStep == ASSUME IInv, [Next]_vars PROVE 
    result' # result /\ result'.stage # "none" => result'.stage = mem_stage'
  <1> USE DEF MemInv, InWolf
  <1>0. MemInv /\ MainType
    BY DEF IInv, TypeOK
  <1>1. CASE Start
    BY <1>0, <1>1, Rows DEF Start, NoFailure
  <1>2. CASE Resolve
    BY <1>0, <1>2, Rows DEF Resolve, resolve_host, connect_failed, NoFailure
  <1>3. CASE OpenTcp
    BY <1>0, <1>3, Rows DEF OpenTcp, connect_failed, NoFailure
  <1>4. CASE WaitTcp
    BY <1>0, <1>4, Rows DEF WaitTcp
  <1>5. CASE WaitTcpDeadline
    BY <1>0, <1>5, Rows DEF WaitTcpDeadline, connect_failed, NoFailure
  <1>6. CASE CheckTcp
    BY <1>0, <1>6, Rows DEF CheckTcp, connect_failed, NoFailure
  <1>7. CASE Setup
    <2>1. step \in 1..7
      BY <1>0, Rows DEF MainType
    <2> QED
      BY <1>0, <1>7, <2>1, Rows DEF Setup, connect_failed
  <1>8. CASE Handshake
    BY <1>0, <1>8, Rows DEF Handshake, CallWolf
  <1>9. CASE HandshakeReturns
    BY <1>0, <1>9, Rows DEF HandshakeReturns, connect_failed, NoFailure
  <1>10. CASE wssl_send
    BY <1>0, <1>10, Rows DEF wssl_send, OperationFails
  <1>11. CASE wssl_send_locked
    BY <1>0, <1>11, Rows DEF wssl_send_locked, OperationFails
  <1>12. CASE wssl_recv
    BY <1>0, <1>12, Rows DEF wssl_recv
  <1>13. CASE wssl_recv_poll
    BY <1>0, <1>13, Rows DEF wssl_recv_poll, OperationFails, AfterData
  <1>14. CASE wssl_recv_deadline
    BY <1>0, <1>14, Rows DEF wssl_recv_deadline, OperationFails
  <1>15. CASE IoReturns
    BY <1>0, <1>15, Rows DEF IoReturns
  <1>16. CASE CloseShutdown
    BY <1>0, <1>16, Rows DEF CloseShutdown, CallWolf
  <1>17. CASE ShutdownReturns
    BY <1>0, <1>17, Rows DEF ShutdownReturns
  <1>18. CASE CloseCheckPcb
    BY <1>0, <1>18, Rows DEF CloseCheckPcb
  <1>19. CASE CloseDetach
    BY <1>0, <1>19, Rows DEF CloseDetach
  <1>20. CASE CloseFree
    BY <1>0, <1>20, Rows DEF CloseFree
  <1>21. CASE tls_write
    BY <1>0, <1>21, Rows DEF tls_write, CallWolf
  <1>22. CASE tls_read
    BY <1>0, <1>22, Rows DEF tls_read, CallWolf
  <1>23. CASE tls_close
    BY <1>0, <1>23, Rows DEF tls_close
  <1>24. CASE on_recv
    BY <1>0, <1>24, Rows DEF on_recv
  <1>25. CASE on_recv_closed
    BY <1>0, <1>25, Rows DEF on_recv_closed
  <1>26. CASE on_err
    BY <1>0, <1>26, Rows DEF on_err
  <1>27. CASE Halted
    BY <1>0, <1>27, Rows DEF Halted, vars
  <1>28. CASE \E err \in ConnErrs : on_connected(err)
    BY <1>0, <1>28, Rows DEF on_connected
  <1>29. CASE UNCHANGED vars
    BY <1>0, <1>29, Rows DEF vars
  <1> QED
    BY <1>1, <1>2, <1>3, <1>4, <1>5, <1>6, <1>7, <1>8, <1>9, <1>10, <1>11, <1>12, <1>13, <1>14,
       <1>15, <1>16, <1>17, <1>18, <1>19, <1>20, <1>21, <1>22, <1>23, <1>24, <1>25, <1>26, <1>27, <1>28,
       <1>29
       DEF Next, Connect, InOut, Closing, Application, Callback

LEMMA FailIsAttemptFail ==
    ASSUME NEW s \in Stages, NEW e \in Errors, Phase = "connecting", pc' = "close",
           result' = [stage |-> s, error |-> e, timed_out |-> (e = "timeout")]
    PROVE  Attempt!Next
  <1>1. Attempt!Fail(s, e)
    BY DEF Attempt!Fail, Attempt!Failure, Phase
  <1> QED
    BY <1>1 DEF Attempt!Next

(* Every step is a step of the contract or none. *)
LEMMA AttemptStep == ASSUME IInv, [Next]_vars PROVE [Attempt!Next]_(Attempt!vars)
  <1> USE DEF ControlInv, InWolf, Phase, Attempt!vars
  <1>0. ControlInv /\ MainType /\ FlagType
    BY DEF IInv, TypeOK
  <1>1. CASE Start
    <2>1. CASE pc' = "resolve"
      <3>1. Attempt!Begin
        BY <1>0, <1>1, <2>1 DEF Start, Attempt!Begin, Attempt!NoFailure, NoFailure, Phase
      <3> QED
        BY <3>1 DEF Attempt!Next
    <2>2. CASE pc' # "resolve"
      <3>1. Attempt!Refuse
        BY <1>0, <1>1, <2>2 DEF Start, Attempt!Refuse, Attempt!Failure, Phase
      <3> QED
        BY <3>1 DEF Attempt!Next
    <2> QED
      BY <2>1, <2>2
  <1>2. CASE Resolve
    <2>1. Phase = "connecting"
      BY <1>0, <1>2 DEF Resolve, resolve_host, Phase
    <2>2. CASE pc' = "close"
      <3>1. \E s \in Stages, e \in Errors :
               result' = [stage |-> s, error |-> e, timed_out |-> (e = "timeout")]
        BY <1>0, <1>2, <2>2 DEF Resolve, resolve_host, connect_failed, Stages, Errors
      <3> QED
        BY <2>1, <2>2, <3>1, FailIsAttemptFail
    <2>3. CASE pc' # "close"
      BY <1>0, <1>2, <2>1, <2>3 DEF Resolve, resolve_host, connect_failed, Phase, Attempt!vars
    <2> QED
      BY <2>2, <2>3
  <1>3. CASE OpenTcp
    <2>1. Phase = "connecting"
      BY <1>0, <1>3 DEF OpenTcp, Phase
    <2>2. CASE pc' = "close"
      <3>1. \E s \in Stages, e \in Errors :
               result' = [stage |-> s, error |-> e, timed_out |-> (e = "timeout")]
        BY <1>0, <1>3, <2>2 DEF OpenTcp, connect_failed, Stages, Errors
      <3> QED
        BY <2>1, <2>2, <3>1, FailIsAttemptFail
    <2>3. CASE pc' # "close"
      BY <1>0, <1>3, <2>1, <2>3 DEF OpenTcp, connect_failed, Phase, Attempt!vars
    <2> QED
      BY <2>2, <2>3
  <1>4. CASE WaitTcp
    BY <1>0, <1>4 DEF WaitTcp
  <1>5. CASE WaitTcpDeadline
    <2>1. Phase = "connecting"
      BY <1>0, <1>5 DEF WaitTcpDeadline, Phase
    <2>2. CASE pc' = "close"
      <3>1. \E s \in Stages, e \in Errors :
               result' = [stage |-> s, error |-> e, timed_out |-> (e = "timeout")]
        BY <1>0, <1>5, <2>2 DEF WaitTcpDeadline, connect_failed, Stages, Errors
      <3> QED
        BY <2>1, <2>2, <3>1, FailIsAttemptFail
    <2>3. CASE pc' # "close"
      BY <1>0, <1>5, <2>1, <2>3 DEF WaitTcpDeadline, connect_failed, Phase, Attempt!vars
    <2> QED
      BY <2>2, <2>3
  <1>6. CASE CheckTcp
    <2>1. Phase = "connecting"
      BY <1>0, <1>6 DEF CheckTcp, Phase
    <2>2. CASE pc' = "close"
      <3>1. \E s \in Stages, e \in Errors :
               result' = [stage |-> s, error |-> e, timed_out |-> (e = "timeout")]
        BY <1>0, <1>6, <2>2 DEF CheckTcp, connect_failed, Stages, Errors
      <3> QED
        BY <2>1, <2>2, <3>1, FailIsAttemptFail
    <2>3. CASE pc' # "close"
      BY <1>0, <1>6, <2>1, <2>3 DEF CheckTcp, connect_failed, Phase, Attempt!vars
    <2> QED
      BY <2>2, <2>3
  <1>7. CASE Setup
    <2>1. Phase = "connecting"
      BY <1>0, <1>7 DEF Setup, Phase
    <2>2. CASE connect_failed(SetupSteps[step].fail, SetupSteps[step].error, FALSE)
      <3>1. SetupSteps[step].fail \in Stages
            /\ SetupSteps[step].error \in Errors /\ SetupSteps[step].error # "timeout"
        BY <1>0, Rows DEF MainType, Errors
      <3>2. pc' = "close" /\ \E s \in Stages, e \in Errors :
               result' = [stage |-> s, error |-> e, timed_out |-> (e = "timeout")]
        BY <2>2, <3>1 DEF connect_failed
      <3> QED
        BY <2>1, <3>2, FailIsAttemptFail
    <2>3. CASE ~connect_failed(SetupSteps[step].fail, SetupSteps[step].error, FALSE)
      BY <1>0, <1>7, <2>1, <2>3 DEF Setup, Phase, Attempt!vars
    <2> QED
      BY <2>2, <2>3
  <1>8. CASE Handshake
    BY <1>0, <1>8 DEF Handshake, CallWolf
  <1>9. CASE HandshakeReturns
    <2>1. Phase = "connecting"
      BY <1>0, <1>9 DEF HandshakeReturns, Phase
    <2>2. CASE pc' = "close"
      <3>1. io_timed_out \in BOOLEAN
        BY <1>0 DEF FlagType
      <3>2. \E s \in Stages, e \in Errors :
               result' = [stage |-> s, error |-> e, timed_out |-> (e = "timeout")]
        BY <1>0, <1>9, <2>2, <3>1 DEF HandshakeReturns, connect_failed, Stages, Errors
      <3> QED
        BY <2>1, <2>2, <3>2, FailIsAttemptFail
    <2>3. CASE pc' # "close"
      <3>1. Attempt!Establish
        BY <1>0, <1>9, <2>1, <2>3 DEF HandshakeReturns, connect_failed, Phase, Attempt!Establish
      <3> QED
        BY <3>1 DEF Attempt!Next
    <2> QED
      BY <2>2, <2>3
  <1>10. CASE wssl_send
    BY <1>0, <1>10 DEF wssl_send, OperationFails
  <1>11. CASE wssl_send_locked
    <2>1. CASE pc' = "halted"
      <3>1. Attempt!Halt
        BY <1>0, <1>11, <2>1 DEF wssl_send_locked, OperationFails, Phase, Attempt!Halt
      <3> QED
        BY <3>1 DEF Attempt!Next
    <2>2. CASE pc' # "halted"
      BY <1>0, <1>11, <2>2 DEF wssl_send_locked, OperationFails, Phase, Attempt!vars
    <2> QED
      BY <2>1, <2>2
  <1>12. CASE wssl_recv
    BY <1>0, <1>12 DEF wssl_recv
  <1>13. CASE wssl_recv_poll
    BY <1>0, <1>13 DEF wssl_recv_poll, OperationFails, AfterData
  <1>14. CASE wssl_recv_deadline
    BY <1>0, <1>14 DEF wssl_recv_deadline, OperationFails
  <1>15. CASE IoReturns
    BY <1>0, <1>15 DEF IoReturns
  <1>16. CASE CloseShutdown
    BY <1>0, <1>16 DEF CloseShutdown, CallWolf
  <1>17. CASE ShutdownReturns
    BY <1>0, <1>17 DEF ShutdownReturns
  <1>18. CASE CloseCheckPcb
    BY <1>0, <1>18 DEF CloseCheckPcb
  <1>19. CASE CloseDetach
    <2>1. CASE pc' = "halted"
      <3>1. Attempt!Halt
        BY <1>0, <1>19, <2>1 DEF CloseDetach, Phase, Attempt!Halt
      <3> QED
        BY <3>1 DEF Attempt!Next
    <2>2. CASE pc' # "halted"
      BY <1>0, <1>19, <2>2 DEF CloseDetach, Phase, Attempt!vars
    <2> QED
      BY <2>1, <2>2
  <1>20. CASE CloseFree
    <2>1. Attempt!Return
      BY <1>0, <1>20 DEF CloseFree, Phase, Attempt!Return
    <2> QED
      BY <2>1 DEF Attempt!Next
  <1>21. CASE tls_write
    BY <1>0, <1>21 DEF tls_write, CallWolf
  <1>22. CASE tls_read
    BY <1>0, <1>22 DEF tls_read, CallWolf
  <1>23. CASE tls_close
    <2>1. Attempt!Close
      BY <1>0, <1>23 DEF tls_close, Phase, Attempt!Close
    <2> QED
      BY <2>1 DEF Attempt!Next
  <1>24. CASE on_recv
    BY <1>0, <1>24 DEF on_recv
  <1>25. CASE on_recv_closed
    BY <1>0, <1>25 DEF on_recv_closed
  <1>26. CASE on_err
    BY <1>0, <1>26 DEF on_err
  <1>27. CASE Halted
    BY <1>0, <1>27 DEF Halted, vars
  <1>28. CASE \E err \in ConnErrs : on_connected(err)
    BY <1>0, <1>28 DEF on_connected
  <1>29. CASE UNCHANGED vars
    BY <1>0, <1>29 DEF vars
  <1> QED
    BY <1>1, <1>2, <1>3, <1>4, <1>5, <1>6, <1>7, <1>8, <1>9, <1>10, <1>11, <1>12, <1>13, <1>14,
       <1>15, <1>16, <1>17, <1>18, <1>19, <1>20, <1>21, <1>22, <1>23, <1>24, <1>25, <1>26, <1>27, <1>28,
       <1>29
       DEF Next, Connect, InOut, Closing, Application, Callback

-----------------------------------------------------------------------------
LEMMA NextInv == ASSUME IInv, [Next]_vars PROVE IInv'
  <1>1. TypeOK'
    BY MainTypeStep, FlagTypeStep, CountTypeStep, StageTypeStep DEF TypeOK
  <1>2. PcbInv' /\ ConnInv' /\ SslInv' /\ ControlInv'
    BY PcbInvStep, ConnInvStep, SslInvStep, ControlInvStep
  <1>3. StreamInv' /\ TimeoutInv' /\ ScopeInv' /\ CountInv' /\ MemInv'
    BY StreamInvStep, TimeoutInvStep, ScopeInvStep, CountInvStep, MemInvStep
  <1> QED
    BY <1>1, <1>2, <1>3 DEF IInv

LEMMA Inductive == Spec => []IInv
  BY InitInv, NextInv, PTL DEF Spec

(* Every variable keeps its type. *)
THEOREM TypeCorrect == Spec => []TypeOK
  <1>1. IInv => TypeOK
    BY DEF IInv
  <1> QED
    BY <1>1, Inductive, PTL

(* No lwIP callback ever runs on a freed tls_conn_t, and conn->pcb never
   names a PCB lwIP has freed: on_err and tls_close agree on who owns it. *)
THEOREM MemorySafety == Spec => [](CallbacksTargetLive /\ PcbNotDangling)
  <1>1. IInv => CallbacksTargetLive /\ PcbNotDangling
    BY DEF IInv, PcbInv, ConnInv, CallbacksTargetLive, PcbNotDangling
  <1> QED
    BY <1>1, Inductive, PTL

(* conn->pcb never names a PCB that lwIP has freed. *)
THEOREM PcbSafety == Spec => []PcbNotDangling
  BY MemorySafety, PTL

(* Every exit of tls_connect_common and tls_close gives back what was taken. *)
THEOREM Released == Spec => []NothingLeaks
  <1>1. IInv => NothingLeaks
    <2> USE DEF IInv, TypeOK, StageType, PcbInv, ConnInv, SslInv, ControlInv, InWolf
    <2> SUFFICES ASSUME IInv PROVE NothingLeaks
      OBVIOUS
    <2>1. pc = "idle" => ~conn /\ ~pcb /\ ~callbacks /\ ~ssl /\ ~ssl_ctx
                         /\ lw \in {"none", "closing"}
      OBVIOUS
    <2>2. pc = "ready" => conn /\ ssl /\ ssl_ctx /\ tcp_connected
      OBVIOUS
    <2> QED
      BY <2>1, <2>2 DEF NothingLeaks
  <1> QED
    BY <1>1, Inductive, PTL

(* wolfSSL learns of the end of the stream after the last byte of it. *)
THEOREM StreamEnd == Spec => []EndOfStreamIsFinal
  <1>1. IInv => EndOfStreamIsFinal
    BY DEF IInv, StreamInv
  <1> QED
    BY <1>1, Inductive, PTL

(* tls_io_timed_out answers for the most recent transport read. *)
THEOREM TimeoutReported == Spec => []IoTimedOutIsLastRead
  <1>1. IInv => IoTimedOutIsLastRead
    BY DEF IInv, TimeoutInv
  <1> QED
    BY <1>1, Inductive, PTL

(* After a handshake the counters are its own, and nothing changes them. *)
THEOREM CountsExact == Spec => []HandshakeCountsExact
  <1>1. IInv => HandshakeCountsExact
    BY DEF IInv, CountInv
  <1> QED
    BY <1>1, Inductive, PTL

(* A failed attempt names the stage in which the memory monitor saw it fail. *)
THEOREM FailureStage == Spec => FailureStageMatches
  <1>1. IInv /\ [Next]_vars =>
            [result' # result /\ result'.stage # "none" => result'.stage = mem_stage']_vars
    BY FailureStep
  <1> QED
    BY <1>1, Inductive, PTL DEF Spec, FailureStageMatches

(* The connection as the program sees it behaves as tls_transport.h says. *)
THEOREM Refinement == Spec => RefinesAttempt
  <1>1. Init => Attempt!Init
    BY DEF Init, Attempt!Init, Phase, NoFailure, Attempt!NoFailure
  <1>2. IInv /\ [Next]_vars => [Attempt!Next]_(Attempt!vars)
    BY AttemptStep
  <1> QED
    BY <1>1, <1>2, Inductive, PTL DEF Spec, RefinesAttempt, Attempt!Spec
=============================================================================
