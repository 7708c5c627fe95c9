------------------------ MODULE PlainTransport_proofs ------------------------
(***************************************************************************)
(* Proofs about PlainTransport for every ring, read length, deadline and   *)
(* amount of traffic: the memory safety of the connection structure, the   *)
(* release of what an attempt took, that a read loses no byte, and the     *)
(* contract TlsAttempt, which the TLS transport implements too.            *)
(***************************************************************************)
EXTENDS PlainTransport, TLAPS

Resolving == {"dns_clear", "dns_clear_err", "dns_ask", "dns_wait", "dns_deadline", "dns_check",
              "dns_take"}

(* lwIP has the PCB with our callbacks exactly as long as conn->pcb names it. *)
PcbInv ==
    /\ callbacks <=> lw \in {"bound", "connecting", "open"}
    /\ pc # "free" => (pcb <=> callbacks)
    /\ pc \in {"free", "idle", "open"} \cup Resolving => ~callbacks

(* The structure lives from Start to CloseFree. *)
ConnInv == conn <=> pc # "idle"

(* After ClearErr the global error flag tells of this lookup, or of an answer that came just *)
(* before it asked.                                                                          *)
LookupInv ==
    /\ pc = "dns_ask" /\ dns_err => overtaken
    /\ pc \in {"dns_wait", "dns_deadline", "dns_check"} /\ dns_err
          => "failure" \in answers \/ overtaken
    /\ pc \notin {"idle", "close", "detach", "free", "halted"} => result.stage = "none"
    /\ DnsFailureIsThisLookup

(* The bytes the ring accepted and where they are. *)
StreamInv ==
    /\ accepted = ring + total + handed
    /\ accepted + peerLeft <= MaxUnits

(* A read in progress, and what the last one returned. *)
ReadInv ==
    /\ pc \in {"read", "read_deadline"} => total < want /\ ~io_timed_out
    /\ pc \notin {"read", "read_deadline"} => total = 0
    /\ pc \in {"ready", "write"} /\ want > 0 =>
          /\ ret < want => io_timed_out \/ Closed
          /\ io_timed_out => ret < want
    /\ pc \in {"open", "wait", "deadline", "check"} \cup Resolving => want = 0

IInv == TypeOK /\ PcbInv /\ ConnInv /\ LookupInv /\ StreamInv /\ ReadInv

USE DEF read, dns, flags, net, stream, report, lookup, ForgetPcb, ResetDnsErr, WaitRound,
        TcpTimesOut, ReturnShort, Unregister

(* The results an attempt can be given. *)
LEMMA Records ==
    /\ NoFailure \in Results
    /\ \A s \in Stages, e \in Errors, t \in BOOLEAN :
          [stage |-> s, error |-> e, timed_out |-> t] \in Results
    /\ NoFailure.stage = "none"
  BY DEF NoFailure, Results, Stages, Errors

LEMMA InitInv == Init => IInv
  <1> SUFFICES ASSUME Init PROVE IInv
    OBVIOUS
  <1>1. MainType
    BY PlainTransportAssumption DEF Init, MainType
  <1>2. StreamType
    BY PlainTransportAssumption DEF Init, StreamType
  <1>3. FlagType
    BY DEF Init, FlagType
  <1>7. LookupType /\ result \in Results
    BY Records DEF Init, LookupType
  <1>4. PcbInv /\ ConnInv
    BY DEF Init, PcbInv, ConnInv, Resolving
  <1>5. LookupInv
    BY DEF Init, LookupInv, DnsFailureIsThisLookup, LookupFailed, NoFailure
  <1>6. StreamInv /\ ReadInv
    BY PlainTransportAssumption DEF Init, StreamInv, ReadInv, Resolving
  <1> QED
    BY <1>1, <1>2, <1>3, <1>4, <1>5, <1>6, <1>7 DEF IInv, TypeOK

-----------------------------------------------------------------------------
(* Preservation, one lemma per conjunct of IInv, one case per action. *)

(* The control state keeps its type. *)
LEMMA MainTypeStep == ASSUME IInv, [Next]_vars PROVE MainType'
  <1> USE DEF MainType
  <1>0. MainType /\ StreamType /\ ReadInv
    BY DEF IInv, TypeOK
  <1>1. CASE Start
    BY <1>0, <1>1, PlainTransportAssumption DEF Start, Failure
  <1>2. CASE ClearDone
    BY <1>0, <1>2, PlainTransportAssumption DEF ClearDone
  <1>3. CASE ClearErr
    BY <1>0, <1>3, PlainTransportAssumption DEF ClearErr
  <1>4. CASE Ask
    BY <1>0, <1>4, PlainTransportAssumption DEF Ask, Resolves, ResolveFails, Failure
  <1>5. CASE WaitDns
    BY <1>0, <1>5, PlainTransportAssumption DEF WaitDns
  <1>6. CASE WaitDnsDeadline
    BY <1>0, <1>6, PlainTransportAssumption DEF WaitDnsDeadline, ResolveFails, Failure
  <1>7. CASE CheckDns
    BY <1>0, <1>7, PlainTransportAssumption DEF CheckDns, ResolveFails, Failure
  <1>8. CASE TakeAddress
    BY <1>0, <1>8, PlainTransportAssumption DEF TakeAddress, Resolves
  <1>9. CASE OpenTcp
    BY <1>0, <1>9, PlainTransportAssumption DEF OpenTcp, Failure
  <1>10. CASE WaitTcp
    BY <1>0, <1>10, PlainTransportAssumption DEF WaitTcp
  <1>11. CASE WaitTcpDeadline
    BY <1>0, <1>11, PlainTransportAssumption DEF WaitTcpDeadline, Failure, MeasureTcp
  <1>12. CASE CheckTcp
    BY <1>0, <1>12, PlainTransportAssumption DEF CheckTcp, Failure, MeasureTcp
  <1>13. CASE WriteLocked
    BY <1>0, <1>13, PlainTransportAssumption DEF WriteLocked
  <1>14. CASE ReadPoll
    <2>1. ring \in Nat /\ want \in 1..MaxWant /\ total \in 0..want /\ total < want
      BY <1>0, <1>14 DEF ReadPoll, StreamType, ReadInv
    <2>2. Fetched \in Nat /\ total + Fetched \in 0..want
      BY <2>1 DEF Fetched
    <2>3. total' \in 0..MaxWant /\ ret' \in -1..MaxWant
      BY <1>0, <1>14, <2>1, <2>2, PlainTransportAssumption DEF ReadPoll, Return
    <2>4. pc' \in {"ready", "read_deadline"}
      BY <1>0, <1>14 DEF ReadPoll, Return
    <2> QED
      BY <1>0, <1>14, <2>3, <2>4 DEF ReadPoll
  <1>15. CASE ReadDeadline
    BY <1>0, <1>15, PlainTransportAssumption DEF ReadDeadline, Return
  <1>16. CASE CloseCheckPcb
    BY <1>0, <1>16, PlainTransportAssumption DEF CloseCheckPcb
  <1>17. CASE CloseDetach
    BY <1>0, <1>17, PlainTransportAssumption DEF CloseDetach
  <1>18. CASE CloseFree
    BY <1>0, <1>18, PlainTransportAssumption DEF CloseFree
  <1>19. CASE tls_write
    BY <1>0, <1>19, PlainTransportAssumption DEF tls_write
  <1>20. CASE tls_read
    BY <1>0, <1>20, PlainTransportAssumption DEF tls_read
  <1>21. CASE tls_close
    BY <1>0, <1>21, PlainTransportAssumption DEF tls_close
  <1>22. CASE dns_cb
    BY <1>0, <1>22, PlainTransportAssumption DEF dns_cb
  <1>23. CASE on_recv
    BY <1>0, <1>23, PlainTransportAssumption DEF on_recv
  <1>24. CASE on_recv_closed
    BY <1>0, <1>24, PlainTransportAssumption DEF on_recv_closed
  <1>25. CASE on_err
    BY <1>0, <1>25, PlainTransportAssumption DEF on_err
  <1>26. CASE Halted
    BY <1>0, <1>26, PlainTransportAssumption DEF Halted, vars
  <1>27. CASE \E err \in ConnErrs : on_connected(err)
    BY <1>0, <1>27, PlainTransportAssumption DEF on_connected
  <1>28. CASE UNCHANGED vars
    BY <1>0, <1>28, PlainTransportAssumption DEF vars
  <1> QED
    BY <1>1, <1>2, <1>3, <1>4, <1>5, <1>6, <1>7, <1>8, <1>9, <1>10, <1>11, <1>12, <1>13, <1>14,
       <1>15, <1>16, <1>17, <1>18, <1>19, <1>20, <1>21, <1>22, <1>23, <1>24, <1>25, <1>26, <1>27, <1>28
       DEF Next, Lookup, Connect, InOut, Closing, Application, Callback

(* The stream keeps its type. *)
LEMMA StreamTypeStep == ASSUME IInv, [Next]_vars PROVE StreamType'
  <1> USE DEF StreamType
  <1>0. StreamType /\ MainType /\ StreamInv /\ ReadInv
    BY DEF IInv, TypeOK
  <1>1. CASE Start
    BY <1>0, <1>1, PlainTransportAssumption DEF Start, Failure
  <1>2. CASE ClearDone
    BY <1>0, <1>2, PlainTransportAssumption DEF ClearDone
  <1>3. CASE ClearErr
    BY <1>0, <1>3, PlainTransportAssumption DEF ClearErr
  <1>4. CASE Ask
    BY <1>0, <1>4, PlainTransportAssumption DEF Ask, Resolves, ResolveFails, Failure
  <1>5. CASE WaitDns
    BY <1>0, <1>5, PlainTransportAssumption DEF WaitDns
  <1>6. CASE WaitDnsDeadline
    BY <1>0, <1>6, PlainTransportAssumption DEF WaitDnsDeadline, ResolveFails, Failure
  <1>7. CASE CheckDns
    BY <1>0, <1>7, PlainTransportAssumption DEF CheckDns, ResolveFails, Failure
  <1>8. CASE TakeAddress
    BY <1>0, <1>8, PlainTransportAssumption DEF TakeAddress, Resolves
  <1>9. CASE OpenTcp
    BY <1>0, <1>9, PlainTransportAssumption DEF OpenTcp, Failure
  <1>10. CASE WaitTcp
    BY <1>0, <1>10, PlainTransportAssumption DEF WaitTcp
  <1>11. CASE WaitTcpDeadline
    BY <1>0, <1>11, PlainTransportAssumption DEF WaitTcpDeadline, Failure, MeasureTcp
  <1>12. CASE CheckTcp
    BY <1>0, <1>12, PlainTransportAssumption DEF CheckTcp, Failure, MeasureTcp
  <1>13. CASE WriteLocked
    BY <1>0, <1>13, PlainTransportAssumption DEF WriteLocked
  <1>14. CASE ReadPoll
    <2>1. ring \in 0..RingCap /\ want \in 1..MaxWant /\ total \in 0..want /\ total < want
      BY <1>0, <1>14 DEF ReadPoll, MainType, ReadInv
    <2>2. Fetched \in 0..ring
      BY <2>1, PlainTransportAssumption DEF Fetched
    <2>3. ring' \in 0..RingCap /\ ring' = ring - Fetched
      BY <1>0, <1>14, <2>1, <2>2, PlainTransportAssumption DEF ReadPoll
    <2>4. handed' \in Nat
      BY <1>0, <1>14, <2>1, <2>2, PlainTransportAssumption DEF ReadPoll, Return
    <2>5. handed' <= MaxUnits
      <3>1. accepted = ring + total + handed /\ accepted <= MaxUnits
        BY <1>0, PlainTransportAssumption DEF StreamInv
      <3>2. handed' = handed \/ handed' = handed + (total + Fetched)
        BY <1>0, <1>14 DEF ReadPoll, Return
      <3> QED
        BY <1>0, <2>1, <2>2, <3>1, <3>2, PlainTransportAssumption
    <2> QED
      BY <1>0, <1>14, <2>3, <2>4, <2>5, PlainTransportAssumption DEF ReadPoll
  <1>15. CASE ReadDeadline
    <2>1. total \in Nat /\ accepted = ring + total + handed
      BY <1>0 DEF MainType, StreamInv
    <2>2. handed' \in 0..MaxUnits
      BY <1>0, <1>15, <2>1, PlainTransportAssumption DEF ReadDeadline, Return
    <2> QED
      BY <1>0, <1>15, <2>2 DEF ReadDeadline
  <1>16. CASE CloseCheckPcb
    BY <1>0, <1>16, PlainTransportAssumption DEF CloseCheckPcb
  <1>17. CASE CloseDetach
    BY <1>0, <1>17, PlainTransportAssumption DEF CloseDetach
  <1>18. CASE CloseFree
    BY <1>0, <1>18, PlainTransportAssumption DEF CloseFree
  <1>19. CASE tls_write
    BY <1>0, <1>19, PlainTransportAssumption DEF tls_write
  <1>20. CASE tls_read
    BY <1>0, <1>20, PlainTransportAssumption DEF tls_read
  <1>21. CASE tls_close
    BY <1>0, <1>21, PlainTransportAssumption DEF tls_close
  <1>22. CASE dns_cb
    BY <1>0, <1>22, PlainTransportAssumption DEF dns_cb
  <1>23. CASE on_recv
    BY <1>0, <1>23, PlainTransportAssumption DEF on_recv, StreamInv, MainType
  <1>24. CASE on_recv_closed
    BY <1>0, <1>24, PlainTransportAssumption DEF on_recv_closed
  <1>25. CASE on_err
    BY <1>0, <1>25, PlainTransportAssumption DEF on_err
  <1>26. CASE Halted
    BY <1>0, <1>26, PlainTransportAssumption DEF Halted, vars
  <1>27. CASE \E err \in ConnErrs : on_connected(err)
    BY <1>0, <1>27, PlainTransportAssumption DEF on_connected
  <1>28. CASE UNCHANGED vars
    BY <1>0, <1>28, PlainTransportAssumption DEF vars
  <1> QED
    BY <1>1, <1>2, <1>3, <1>4, <1>5, <1>6, <1>7, <1>8, <1>9, <1>10, <1>11, <1>12, <1>13, <1>14,
       <1>15, <1>16, <1>17, <1>18, <1>19, <1>20, <1>21, <1>22, <1>23, <1>24, <1>25, <1>26, <1>27, <1>28
       DEF Next, Lookup, Connect, InOut, Closing, Application, Callback

(* The flags stay Booleans. *)
LEMMA FlagTypeStep == ASSUME IInv, [Next]_vars PROVE FlagType'
  <1> USE DEF FlagType
  <1>0. FlagType
    BY DEF IInv, TypeOK
  <1>1. CASE Start
    BY <1>0, <1>1 DEF Start, Failure
  <1>2. CASE ClearDone
    BY <1>0, <1>2 DEF ClearDone
  <1>3. CASE ClearErr
    BY <1>0, <1>3 DEF ClearErr
  <1>4. CASE Ask
    BY <1>0, <1>4 DEF Ask, Resolves, ResolveFails, Failure
  <1>5. CASE WaitDns
    BY <1>0, <1>5 DEF WaitDns
  <1>6. CASE WaitDnsDeadline
    BY <1>0, <1>6 DEF WaitDnsDeadline, ResolveFails, Failure
  <1>7. CASE CheckDns
    BY <1>0, <1>7 DEF CheckDns, ResolveFails, Failure
  <1>8. CASE TakeAddress
    BY <1>0, <1>8 DEF TakeAddress, Resolves
  <1>9. CASE OpenTcp
    BY <1>0, <1>9 DEF OpenTcp, Failure
  <1>10. CASE WaitTcp
    BY <1>0, <1>10 DEF WaitTcp
  <1>11. CASE WaitTcpDeadline
    BY <1>0, <1>11 DEF WaitTcpDeadline, Failure, MeasureTcp
  <1>12. CASE CheckTcp
    BY <1>0, <1>12 DEF CheckTcp, Failure, MeasureTcp
  <1>13. CASE WriteLocked
    BY <1>0, <1>13 DEF WriteLocked
  <1>14. CASE ReadPoll
    BY <1>0, <1>14 DEF ReadPoll, Return, Fetched, Complete
  <1>15. CASE ReadDeadline
    BY <1>0, <1>15 DEF ReadDeadline, Return
  <1>16. CASE CloseCheckPcb
    BY <1>0, <1>16 DEF CloseCheckPcb
  <1>17. CASE CloseDetach
    BY <1>0, <1>17 DEF CloseDetach
  <1>18. CASE CloseFree
    BY <1>0, <1>18 DEF CloseFree
  <1>19. CASE tls_write
    BY <1>0, <1>19 DEF tls_write
  <1>20. CASE tls_read
    BY <1>0, <1>20 DEF tls_read
  <1>21. CASE tls_close
    BY <1>0, <1>21 DEF tls_close
  <1>22. CASE dns_cb
    BY <1>0, <1>22 DEF dns_cb
  <1>23. CASE on_recv
    BY <1>0, <1>23 DEF on_recv
  <1>24. CASE on_recv_closed
    BY <1>0, <1>24 DEF on_recv_closed
  <1>25. CASE on_err
    BY <1>0, <1>25 DEF on_err
  <1>26. CASE Halted
    BY <1>0, <1>26 DEF Halted, vars
  <1>27. CASE \E err \in ConnErrs : on_connected(err)
    BY <1>0, <1>27 DEF on_connected
  <1>28. CASE UNCHANGED vars
    BY <1>0, <1>28 DEF vars
  <1> QED
    BY <1>1, <1>2, <1>3, <1>4, <1>5, <1>6, <1>7, <1>8, <1>9, <1>10, <1>11, <1>12, <1>13, <1>14,
       <1>15, <1>16, <1>17, <1>18, <1>19, <1>20, <1>21, <1>22, <1>23, <1>24, <1>25, <1>26, <1>27, <1>28
       DEF Next, Lookup, Connect, InOut, Closing, Application, Callback

(* The addresses, answers and durations keep their types. *)
LEMMA LookupTypeStep == ASSUME IInv, [Next]_vars PROVE LookupType'
  <1> USE DEF LookupType, Stages
  <1>0. LookupType
    BY DEF IInv, TypeOK
  <1>1. CASE Start
    BY <1>0, <1>1 DEF Start, Failure
  <1>2. CASE ClearDone
    BY <1>0, <1>2 DEF ClearDone
  <1>3. CASE ClearErr
    BY <1>0, <1>3 DEF ClearErr
  <1>4. CASE Ask
    BY <1>0, <1>4 DEF Ask, Resolves, ResolveFails, Failure
  <1>5. CASE WaitDns
    BY <1>0, <1>5 DEF WaitDns
  <1>6. CASE WaitDnsDeadline
    BY <1>0, <1>6 DEF WaitDnsDeadline, ResolveFails, Failure
  <1>7. CASE CheckDns
    BY <1>0, <1>7 DEF CheckDns, ResolveFails, Failure
  <1>8. CASE TakeAddress
    BY <1>0, <1>8 DEF TakeAddress, Resolves
  <1>9. CASE OpenTcp
    BY <1>0, <1>9 DEF OpenTcp, Failure
  <1>10. CASE WaitTcp
    BY <1>0, <1>10 DEF WaitTcp
  <1>11. CASE WaitTcpDeadline
    BY <1>0, <1>11 DEF WaitTcpDeadline, Failure, MeasureTcp
  <1>12. CASE CheckTcp
    BY <1>0, <1>12 DEF CheckTcp, Failure, MeasureTcp
  <1>13. CASE WriteLocked
    BY <1>0, <1>13 DEF WriteLocked
  <1>14. CASE ReadPoll
    BY <1>0, <1>14 DEF ReadPoll, Return, Fetched, Complete
  <1>15. CASE ReadDeadline
    BY <1>0, <1>15 DEF ReadDeadline, Return
  <1>16. CASE CloseCheckPcb
    BY <1>0, <1>16 DEF CloseCheckPcb
  <1>17. CASE CloseDetach
    BY <1>0, <1>17 DEF CloseDetach
  <1>18. CASE CloseFree
    BY <1>0, <1>18 DEF CloseFree
  <1>19. CASE tls_write
    BY <1>0, <1>19 DEF tls_write
  <1>20. CASE tls_read
    BY <1>0, <1>20 DEF tls_read
  <1>21. CASE tls_close
    BY <1>0, <1>21 DEF tls_close
  <1>22. CASE dns_cb
    BY <1>0, <1>22 DEF dns_cb
  <1>23. CASE on_recv
    BY <1>0, <1>23 DEF on_recv
  <1>24. CASE on_recv_closed
    BY <1>0, <1>24 DEF on_recv_closed
  <1>25. CASE on_err
    BY <1>0, <1>25 DEF on_err
  <1>26. CASE Halted
    BY <1>0, <1>26 DEF Halted, vars
  <1>27. CASE \E err \in ConnErrs : on_connected(err)
    BY <1>0, <1>27 DEF on_connected
  <1>28. CASE UNCHANGED vars
    BY <1>0, <1>28 DEF vars
  <1> QED
    BY <1>1, <1>2, <1>3, <1>4, <1>5, <1>6, <1>7, <1>8, <1>9, <1>10, <1>11, <1>12, <1>13, <1>14,
       <1>15, <1>16, <1>17, <1>18, <1>19, <1>20, <1>21, <1>22, <1>23, <1>24, <1>25, <1>26, <1>27, <1>28
       DEF Next, Lookup, Connect, InOut, Closing, Application, Callback

(* Results stay in their set. *)
LEMMA ResultStep == ASSUME IInv, [Next]_vars PROVE result' \in Results
  <1> USE DEF Stages, Errors
  <1>0. result \in Results
    BY DEF IInv, TypeOK
  <1>1. CASE Start
    BY <1>0, <1>1, Records DEF Start, Failure
  <1>2. CASE ClearDone
    BY <1>0, <1>2, Records DEF ClearDone
  <1>3. CASE ClearErr
    BY <1>0, <1>3, Records DEF ClearErr
  <1>4. CASE Ask
    BY <1>0, <1>4, Records DEF Ask, Resolves, ResolveFails, Failure
  <1>5. CASE WaitDns
    BY <1>0, <1>5, Records DEF WaitDns
  <1>6. CASE WaitDnsDeadline
    BY <1>0, <1>6, Records DEF WaitDnsDeadline, ResolveFails, Failure
  <1>7. CASE CheckDns
    BY <1>0, <1>7, Records DEF CheckDns, ResolveFails, Failure
  <1>8. CASE TakeAddress
    BY <1>0, <1>8, Records DEF TakeAddress, Resolves
  <1>9. CASE OpenTcp
    BY <1>0, <1>9, Records DEF OpenTcp, Failure
  <1>10. CASE WaitTcp
    BY <1>0, <1>10, Records DEF WaitTcp
  <1>11. CASE WaitTcpDeadline
    BY <1>0, <1>11, Records DEF WaitTcpDeadline, Failure, MeasureTcp
  <1>12. CASE CheckTcp
    BY <1>0, <1>12, Records DEF CheckTcp, Failure, MeasureTcp
  <1>13. CASE WriteLocked
    BY <1>0, <1>13, Records DEF WriteLocked
  <1>14. CASE ReadPoll
    BY <1>0, <1>14, Records DEF ReadPoll, Return, Fetched, Complete
  <1>15. CASE ReadDeadline
    BY <1>0, <1>15, Records DEF ReadDeadline, Return
  <1>16. CASE CloseCheckPcb
    BY <1>0, <1>16, Records DEF CloseCheckPcb
  <1>17. CASE CloseDetach
    BY <1>0, <1>17, Records DEF CloseDetach
  <1>18. CASE CloseFree
    BY <1>0, <1>18, Records DEF CloseFree
  <1>19. CASE tls_write
    BY <1>0, <1>19, Records DEF tls_write
  <1>20. CASE tls_read
    BY <1>0, <1>20, Records DEF tls_read
  <1>21. CASE tls_close
    BY <1>0, <1>21, Records DEF tls_close
  <1>22. CASE dns_cb
    BY <1>0, <1>22, Records DEF dns_cb
  <1>23. CASE on_recv
    BY <1>0, <1>23, Records DEF on_recv
  <1>24. CASE on_recv_closed
    BY <1>0, <1>24, Records DEF on_recv_closed
  <1>25. CASE on_err
    BY <1>0, <1>25, Records DEF on_err
  <1>26. CASE Halted
    BY <1>0, <1>26, Records DEF Halted, vars
  <1>27. CASE \E err \in ConnErrs : on_connected(err)
    BY <1>0, <1>27, Records DEF on_connected
  <1>28. CASE UNCHANGED vars
    BY <1>0, <1>28, Records DEF vars
  <1> QED
    BY <1>1, <1>2, <1>3, <1>4, <1>5, <1>6, <1>7, <1>8, <1>9, <1>10, <1>11, <1>12, <1>13, <1>14,
       <1>15, <1>16, <1>17, <1>18, <1>19, <1>20, <1>21, <1>22, <1>23, <1>24, <1>25, <1>26, <1>27, <1>28
       DEF Next, Lookup, Connect, InOut, Closing, Application, Callback

(* lwIP and the connection agree on the PCB. *)
LEMMA PcbInvStep == ASSUME IInv, [Next]_vars PROVE PcbInv'
  <1> USE DEF PcbInv, Resolving
  <1>0. PcbInv
    BY DEF IInv
  <1>1. CASE Start
    BY <1>0, <1>1 DEF Start, Failure
  <1>2. CASE ClearDone
    BY <1>0, <1>2 DEF ClearDone
  <1>3. CASE ClearErr
    BY <1>0, <1>3 DEF ClearErr
  <1>4. CASE Ask
    BY <1>0, <1>4 DEF Ask, Resolves, ResolveFails, Failure
  <1>5. CASE WaitDns
    BY <1>0, <1>5 DEF WaitDns
  <1>6. CASE WaitDnsDeadline
    BY <1>0, <1>6 DEF WaitDnsDeadline, ResolveFails, Failure
  <1>7. CASE CheckDns
    BY <1>0, <1>7 DEF CheckDns, ResolveFails, Failure
  <1>8. CASE TakeAddress
    BY <1>0, <1>8 DEF TakeAddress, Resolves
  <1>9. CASE OpenTcp
    BY <1>0, <1>9 DEF OpenTcp, Failure
  <1>10. CASE WaitTcp
    BY <1>0, <1>10 DEF WaitTcp
  <1>11. CASE WaitTcpDeadline
    BY <1>0, <1>11 DEF WaitTcpDeadline, Failure, MeasureTcp
  <1>12. CASE CheckTcp
    BY <1>0, <1>12 DEF CheckTcp, Failure, MeasureTcp
  <1>13. CASE WriteLocked
    BY <1>0, <1>13 DEF WriteLocked
  <1>14. CASE ReadPoll
    BY <1>0, <1>14 DEF ReadPoll, Return, Fetched, Complete
  <1>15. CASE ReadDeadline
    BY <1>0, <1>15 DEF ReadDeadline, Return
  <1>16. CASE CloseCheckPcb
    BY <1>0, <1>16 DEF CloseCheckPcb
  <1>17. CASE CloseDetach
    BY <1>0, <1>17 DEF CloseDetach
  <1>18. CASE CloseFree
    BY <1>0, <1>18 DEF CloseFree
  <1>19. CASE tls_write
    BY <1>0, <1>19 DEF tls_write
  <1>20. CASE tls_read
    BY <1>0, <1>20 DEF tls_read
  <1>21. CASE tls_close
    BY <1>0, <1>21 DEF tls_close
  <1>22. CASE dns_cb
    BY <1>0, <1>22 DEF dns_cb
  <1>23. CASE on_recv
    BY <1>0, <1>23 DEF on_recv
  <1>24. CASE on_recv_closed
    BY <1>0, <1>24 DEF on_recv_closed
  <1>25. CASE on_err
    BY <1>0, <1>25 DEF on_err
  <1>26. CASE Halted
    BY <1>0, <1>26 DEF Halted, vars
  <1>27. CASE \E err \in ConnErrs : on_connected(err)
    BY <1>0, <1>27 DEF on_connected
  <1>28. CASE UNCHANGED vars
    BY <1>0, <1>28 DEF vars
  <1> QED
    BY <1>1, <1>2, <1>3, <1>4, <1>5, <1>6, <1>7, <1>8, <1>9, <1>10, <1>11, <1>12, <1>13, <1>14,
       <1>15, <1>16, <1>17, <1>18, <1>19, <1>20, <1>21, <1>22, <1>23, <1>24, <1>25, <1>26, <1>27, <1>28
       DEF Next, Lookup, Connect, InOut, Closing, Application, Callback

(* The structure is allocated from Start to CloseFree. *)
LEMMA ConnInvStep == ASSUME IInv, [Next]_vars PROVE ConnInv'
  <1> USE DEF ConnInv
  <1>0. ConnInv
    BY DEF IInv
  <1>1. CASE Start
    BY <1>0, <1>1 DEF Start, Failure
  <1>2. CASE ClearDone
    BY <1>0, <1>2 DEF ClearDone
  <1>3. CASE ClearErr
    BY <1>0, <1>3 DEF ClearErr
  <1>4. CASE Ask
    BY <1>0, <1>4 DEF Ask, Resolves, ResolveFails, Failure
  <1>5. CASE WaitDns
    BY <1>0, <1>5 DEF WaitDns
  <1>6. CASE WaitDnsDeadline
    BY <1>0, <1>6 DEF WaitDnsDeadline, ResolveFails, Failure
  <1>7. CASE CheckDns
    BY <1>0, <1>7 DEF CheckDns, ResolveFails, Failure
  <1>8. CASE TakeAddress
    BY <1>0, <1>8 DEF TakeAddress, Resolves
  <1>9. CASE OpenTcp
    BY <1>0, <1>9 DEF OpenTcp, Failure
  <1>10. CASE WaitTcp
    BY <1>0, <1>10 DEF WaitTcp
  <1>11. CASE WaitTcpDeadline
    BY <1>0, <1>11 DEF WaitTcpDeadline, Failure, MeasureTcp
  <1>12. CASE CheckTcp
    BY <1>0, <1>12 DEF CheckTcp, Failure, MeasureTcp
  <1>13. CASE WriteLocked
    BY <1>0, <1>13 DEF WriteLocked
  <1>14. CASE ReadPoll
    BY <1>0, <1>14 DEF ReadPoll, Return, Fetched, Complete
  <1>15. CASE ReadDeadline
    BY <1>0, <1>15 DEF ReadDeadline, Return
  <1>16. CASE CloseCheckPcb
    BY <1>0, <1>16 DEF CloseCheckPcb
  <1>17. CASE CloseDetach
    BY <1>0, <1>17 DEF CloseDetach
  <1>18. CASE CloseFree
    BY <1>0, <1>18 DEF CloseFree
  <1>19. CASE tls_write
    BY <1>0, <1>19 DEF tls_write
  <1>20. CASE tls_read
    BY <1>0, <1>20 DEF tls_read
  <1>21. CASE tls_close
    BY <1>0, <1>21 DEF tls_close
  <1>22. CASE dns_cb
    BY <1>0, <1>22 DEF dns_cb
  <1>23. CASE on_recv
    BY <1>0, <1>23 DEF on_recv
  <1>24. CASE on_recv_closed
    BY <1>0, <1>24 DEF on_recv_closed
  <1>25. CASE on_err
    BY <1>0, <1>25 DEF on_err
  <1>26. CASE Halted
    BY <1>0, <1>26 DEF Halted, vars
  <1>27. CASE \E err \in ConnErrs : on_connected(err)
    BY <1>0, <1>27 DEF on_connected
  <1>28. CASE UNCHANGED vars
    BY <1>0, <1>28 DEF vars
  <1> QED
    BY <1>1, <1>2, <1>3, <1>4, <1>5, <1>6, <1>7, <1>8, <1>9, <1>10, <1>11, <1>12, <1>13, <1>14,
       <1>15, <1>16, <1>17, <1>18, <1>19, <1>20, <1>21, <1>22, <1>23, <1>24, <1>25, <1>26, <1>27, <1>28
       DEF Next, Lookup, Connect, InOut, Closing, Application, Callback

(* A lookup's failure is its own. *)
LEMMA LookupInvStep == ASSUME IInv, [Next]_vars PROVE LookupInv'
  <1> USE DEF LookupInv, DnsFailureIsThisLookup, LookupFailed
  <1>0. LookupInv
    BY DEF IInv
  <1>1. CASE Start
    BY <1>0, <1>1, Records DEF Start, Failure, NoFailure
  <1>2. CASE ClearDone
    BY <1>0, <1>2, Records DEF ClearDone
  <1>3. CASE ClearErr
    BY <1>0, <1>3, Records DEF ClearErr
  <1>4. CASE Ask
    BY <1>0, <1>4, Records DEF Ask, Resolves, ResolveFails, Failure, NoFailure
  <1>5. CASE WaitDns
    BY <1>0, <1>5, Records DEF WaitDns
  <1>6. CASE WaitDnsDeadline
    BY <1>0, <1>6, Records DEF WaitDnsDeadline, ResolveFails, Failure, NoFailure
  <1>7. CASE CheckDns
    BY <1>0, <1>7, Records DEF CheckDns, ResolveFails, Failure, NoFailure
  <1>8. CASE TakeAddress
    BY <1>0, <1>8, Records DEF TakeAddress, Resolves
  <1>9. CASE OpenTcp
    BY <1>0, <1>9, Records DEF OpenTcp, Failure, NoFailure
  <1>10. CASE WaitTcp
    BY <1>0, <1>10, Records DEF WaitTcp
  <1>11. CASE WaitTcpDeadline
    BY <1>0, <1>11, Records DEF WaitTcpDeadline, Failure, MeasureTcp, NoFailure
  <1>12. CASE CheckTcp
    BY <1>0, <1>12, Records DEF CheckTcp, Failure, MeasureTcp, NoFailure
  <1>13. CASE WriteLocked
    BY <1>0, <1>13, Records DEF WriteLocked
  <1>14. CASE ReadPoll
    BY <1>0, <1>14, Records DEF ReadPoll, Return, Fetched, Complete
  <1>15. CASE ReadDeadline
    BY <1>0, <1>15, Records DEF ReadDeadline, Return
  <1>16. CASE CloseCheckPcb
    BY <1>0, <1>16, Records DEF CloseCheckPcb
  <1>17. CASE CloseDetach
    BY <1>0, <1>17, Records DEF CloseDetach
  <1>18. CASE CloseFree
    BY <1>0, <1>18, Records DEF CloseFree
  <1>19. CASE tls_write
    BY <1>0, <1>19, Records DEF tls_write
  <1>20. CASE tls_read
    BY <1>0, <1>20, Records DEF tls_read
  <1>21. CASE tls_close
    BY <1>0, <1>21, Records DEF tls_close
  <1>22. CASE dns_cb
    <2>1. pc' = pc /\ result' = result
      BY <1>22 DEF dns_cb
    <2>2. (pc = "dns_ask" /\ dns_err') \/ overtaken => overtaken'
      BY <1>22, Zenon DEF dns_cb
    <2>3. "failure" \in answers => "failure" \in answers'
      BY <1>22 DEF dns_cb
    <2>4. dns_err' => dns_err \/ "failure" \in answers'
      BY <1>22 DEF dns_cb
    <2> QED
      BY <1>0, <2>1, <2>2, <2>3, <2>4, Zenon
  <1>23. CASE on_recv
    BY <1>0, <1>23, Records DEF on_recv
  <1>24. CASE on_recv_closed
    BY <1>0, <1>24, Records DEF on_recv_closed
  <1>25. CASE on_err
    BY <1>0, <1>25, Records DEF on_err
  <1>26. CASE Halted
    BY <1>0, <1>26, Records DEF Halted, vars
  <1>27. CASE \E err \in ConnErrs : on_connected(err)
    BY <1>0, <1>27, Records DEF on_connected
  <1>28. CASE UNCHANGED vars
    BY <1>0, <1>28, Records DEF vars
  <1> QED
    BY <1>1, <1>2, <1>3, <1>4, <1>5, <1>6, <1>7, <1>8, <1>9, <1>10, <1>11, <1>12, <1>13, <1>14,
       <1>15, <1>16, <1>17, <1>18, <1>19, <1>20, <1>21, <1>22, <1>23, <1>24, <1>25, <1>26, <1>27, <1>28
       DEF Next, Lookup, Connect, InOut, Closing, Application, Callback

(* No byte is lost between the ring and the caller. *)
LEMMA StreamInvStep == ASSUME IInv, [Next]_vars PROVE StreamInv'
  <1> USE DEF StreamInv
  <1>0. StreamInv /\ MainType /\ StreamType /\ ReadInv
    BY DEF IInv, TypeOK
  <1>1. CASE Start
    BY <1>0, <1>1, PlainTransportAssumption DEF Start, ReadInv
  <1>2. CASE ClearDone
    BY <1>0, <1>2, PlainTransportAssumption DEF ClearDone
  <1>3. CASE ClearErr
    BY <1>0, <1>3, PlainTransportAssumption DEF ClearErr
  <1>4. CASE Ask
    BY <1>0, <1>4, PlainTransportAssumption DEF Ask, Resolves, ResolveFails, Failure
  <1>5. CASE WaitDns
    BY <1>0, <1>5, PlainTransportAssumption DEF WaitDns
  <1>6. CASE WaitDnsDeadline
    BY <1>0, <1>6, PlainTransportAssumption DEF WaitDnsDeadline, ResolveFails, Failure
  <1>7. CASE CheckDns
    BY <1>0, <1>7, PlainTransportAssumption DEF CheckDns, ResolveFails, Failure
  <1>8. CASE TakeAddress
    BY <1>0, <1>8, PlainTransportAssumption DEF TakeAddress, Resolves
  <1>9. CASE OpenTcp
    BY <1>0, <1>9, PlainTransportAssumption DEF OpenTcp, Failure
  <1>10. CASE WaitTcp
    BY <1>0, <1>10, PlainTransportAssumption DEF WaitTcp
  <1>11. CASE WaitTcpDeadline
    BY <1>0, <1>11, PlainTransportAssumption DEF WaitTcpDeadline, Failure, MeasureTcp
  <1>12. CASE CheckTcp
    BY <1>0, <1>12, PlainTransportAssumption DEF CheckTcp, Failure, MeasureTcp
  <1>13. CASE WriteLocked
    BY <1>0, <1>13, PlainTransportAssumption DEF WriteLocked
  <1>14. CASE ReadPoll
    <2>1. ring \in 0..RingCap /\ want \in 1..MaxWant /\ total \in 0..want /\ total < want
          /\ handed \in Nat
      BY <1>0, <1>14 DEF ReadPoll, MainType, StreamType, ReadInv
    <2>2. Fetched \in 0..ring
      BY <2>1, PlainTransportAssumption DEF Fetched
    <2>3. ring' = ring - Fetched
      BY <1>0, <1>14 DEF ReadPoll
    <2>4. \/ total' = 0 /\ handed' = handed + (total + Fetched)
          \/ total' = total + Fetched /\ handed' = handed
      BY <1>0, <1>14 DEF ReadPoll, Return
    <2>5. UNCHANGED <<accepted, peerLeft>>
      BY <1>0, <1>14 DEF ReadPoll
    <2> QED
      BY <1>0, <2>1, <2>2, <2>3, <2>4, <2>5, PlainTransportAssumption
  <1>15. CASE ReadDeadline
    BY <1>0, <1>15, PlainTransportAssumption DEF ReadDeadline, Return, StreamType, MainType
  <1>16. CASE CloseCheckPcb
    BY <1>0, <1>16, PlainTransportAssumption DEF CloseCheckPcb
  <1>17. CASE CloseDetach
    BY <1>0, <1>17, PlainTransportAssumption DEF CloseDetach
  <1>18. CASE CloseFree
    BY <1>0, <1>18, PlainTransportAssumption DEF CloseFree
  <1>19. CASE tls_write
    BY <1>0, <1>19, PlainTransportAssumption DEF tls_write
  <1>20. CASE tls_read
    BY <1>0, <1>20, PlainTransportAssumption DEF tls_read, ReadInv
  <1>21. CASE tls_close
    BY <1>0, <1>21, PlainTransportAssumption DEF tls_close
  <1>22. CASE dns_cb
    BY <1>0, <1>22, PlainTransportAssumption DEF dns_cb
  <1>23. CASE on_recv
    BY <1>0, <1>23, PlainTransportAssumption DEF on_recv, StreamType, MainType
  <1>24. CASE on_recv_closed
    BY <1>0, <1>24, PlainTransportAssumption DEF on_recv_closed
  <1>25. CASE on_err
    BY <1>0, <1>25, PlainTransportAssumption DEF on_err
  <1>26. CASE Halted
    BY <1>0, <1>26, PlainTransportAssumption DEF Halted, vars
  <1>27. CASE \E err \in ConnErrs : on_connected(err)
    BY <1>0, <1>27, PlainTransportAssumption DEF on_connected
  <1>28. CASE UNCHANGED vars
    BY <1>0, <1>28, PlainTransportAssumption DEF vars
  <1> QED
    BY <1>1, <1>2, <1>3, <1>4, <1>5, <1>6, <1>7, <1>8, <1>9, <1>10, <1>11, <1>12, <1>13, <1>14,
       <1>15, <1>16, <1>17, <1>18, <1>19, <1>20, <1>21, <1>22, <1>23, <1>24, <1>25, <1>26, <1>27, <1>28
       DEF Next, Lookup, Connect, InOut, Closing, Application, Callback

(* A short read has a reason. *)
LEMMA ReadInvStep == ASSUME IInv, [Next]_vars PROVE ReadInv'
  <1> USE DEF ReadInv, Closed, Resolving
  <1>0. ReadInv /\ MainType /\ StreamType
    BY DEF IInv, TypeOK
  <1>1. CASE Start
    BY <1>0, <1>1, PlainTransportAssumption DEF Start, Failure
  <1>2. CASE ClearDone
    BY <1>0, <1>2, PlainTransportAssumption DEF ClearDone
  <1>3. CASE ClearErr
    BY <1>0, <1>3, PlainTransportAssumption DEF ClearErr
  <1>4. CASE Ask
    BY <1>0, <1>4, PlainTransportAssumption DEF Ask, Resolves, ResolveFails, Failure
  <1>5. CASE WaitDns
    BY <1>0, <1>5, PlainTransportAssumption DEF WaitDns
  <1>6. CASE WaitDnsDeadline
    BY <1>0, <1>6, PlainTransportAssumption DEF WaitDnsDeadline, ResolveFails, Failure
  <1>7. CASE CheckDns
    BY <1>0, <1>7, PlainTransportAssumption DEF CheckDns, ResolveFails, Failure
  <1>8. CASE TakeAddress
    BY <1>0, <1>8, PlainTransportAssumption DEF TakeAddress, Resolves
  <1>9. CASE OpenTcp
    BY <1>0, <1>9, PlainTransportAssumption DEF OpenTcp, Failure
  <1>10. CASE WaitTcp
    BY <1>0, <1>10, PlainTransportAssumption DEF WaitTcp
  <1>11. CASE WaitTcpDeadline
    BY <1>0, <1>11, PlainTransportAssumption DEF WaitTcpDeadline, Failure, MeasureTcp
  <1>12. CASE CheckTcp
    BY <1>0, <1>12, PlainTransportAssumption DEF CheckTcp, Failure, MeasureTcp
  <1>13. CASE WriteLocked
    BY <1>0, <1>13, PlainTransportAssumption DEF WriteLocked
  <1>14. CASE ReadPoll
    <2>1. ring \in Nat /\ want \in 1..MaxWant /\ total \in 0..want /\ total < want
          /\ ~io_timed_out
      BY <1>0, <1>14 DEF ReadPoll, MainType, StreamType
    <2>2. total + Fetched \in 0..want
      BY <2>1 DEF Fetched
    <2>3. UNCHANGED <<want, io_timed_out, tcp_error, remote_closed>>
      BY <1>0, <1>14 DEF ReadPoll
    <2>4. CASE Complete(total + Fetched) /\ Return(total + Fetched)
      BY <2>1, <2>2, <2>3, <2>4 DEF Complete, Return
    <2>5. CASE Closed /\ Return(total + Fetched)
      BY <2>1, <2>2, <2>3, <2>5 DEF Return
    <2>6. CASE ~Complete(total + Fetched) /\ pc' = "read_deadline" /\ total' = total + Fetched
      BY <2>1, <2>2, <2>3, <2>6 DEF Complete
    <2> QED
      BY <1>0, <1>14, <2>4, <2>5, <2>6 DEF ReadPoll
  <1>15. CASE ReadDeadline
    <2>1. want \in 1..MaxWant /\ total \in 0..want /\ total < want
      BY <1>0, <1>15 DEF ReadDeadline, MainType
    <2> QED
      BY <1>0, <1>15, <2>1 DEF ReadDeadline, Return
  <1>16. CASE CloseCheckPcb
    BY <1>0, <1>16, PlainTransportAssumption DEF CloseCheckPcb
  <1>17. CASE CloseDetach
    BY <1>0, <1>17, PlainTransportAssumption DEF CloseDetach
  <1>18. CASE CloseFree
    BY <1>0, <1>18, PlainTransportAssumption DEF CloseFree
  <1>19. CASE tls_write
    BY <1>0, <1>19, PlainTransportAssumption DEF tls_write
  <1>20. CASE tls_read
    BY <1>0, <1>20, PlainTransportAssumption DEF tls_read, MainType
  <1>21. CASE tls_close
    BY <1>0, <1>21, PlainTransportAssumption DEF tls_close
  <1>22. CASE dns_cb
    BY <1>0, <1>22, PlainTransportAssumption DEF dns_cb
  <1>23. CASE on_recv
    BY <1>0, <1>23, PlainTransportAssumption DEF on_recv
  <1>24. CASE on_recv_closed
    BY <1>0, <1>24, PlainTransportAssumption DEF on_recv_closed
  <1>25. CASE on_err
    BY <1>0, <1>25, PlainTransportAssumption DEF on_err
  <1>26. CASE Halted
    BY <1>0, <1>26, PlainTransportAssumption DEF Halted, vars
  <1>27. CASE \E err \in ConnErrs : on_connected(err)
    BY <1>0, <1>27, PlainTransportAssumption DEF on_connected
  <1>28. CASE UNCHANGED vars
    BY <1>0, <1>28, PlainTransportAssumption DEF vars
  <1> QED
    BY <1>1, <1>2, <1>3, <1>4, <1>5, <1>6, <1>7, <1>8, <1>9, <1>10, <1>11, <1>12, <1>13, <1>14,
       <1>15, <1>16, <1>17, <1>18, <1>19, <1>20, <1>21, <1>22, <1>23, <1>24, <1>25, <1>26, <1>27, <1>28
       DEF Next, Lookup, Connect, InOut, Closing, Application, Callback

LEMMA FailIsAttemptFail ==
    ASSUME NEW s \in Stages, NEW e \in Errors, Phase = "connecting", pc' = "close",
           result' = [stage |-> s, error |-> e, timed_out |-> (e = "timeout")]
    PROVE  Attempt!Next
  <1>1. Attempt!Fail(s, e)
    BY DEF Attempt!Fail, Attempt!Failure, Phase
  <1> QED
    BY <1>1 DEF Attempt!Next

(* Every step is a step of the contract or none. *)
LEMMA AttemptStep == ASSUME IInv, [Next]_vars PROVE [Attempt!Next]_(Attempt!vars)
  <1> USE DEF Phase, Attempt!vars
  <1>0. MainType
    BY DEF IInv, TypeOK
  <1>1. CASE Start
    <2>1. CASE pc' = "dns_clear"
      <3>1. Attempt!Begin
        BY <1>0, <1>1, <2>1 DEF Start, Failure, Attempt!Begin, Attempt!NoFailure, NoFailure, Phase
      <3> QED
        BY <3>1 DEF Attempt!Next
    <2>2. CASE pc' # "dns_clear"
      <3>1. Attempt!Refuse
        BY <1>0, <1>1, <2>2 DEF Start, Failure, Attempt!Refuse, Attempt!Failure, Phase
      <3> QED
        BY <3>1 DEF Attempt!Next
    <2> QED
      BY <2>1, <2>2
  <1>2. CASE ClearDone
    BY <1>0, <1>2 DEF ClearDone
  <1>3. CASE ClearErr
    BY <1>0, <1>3 DEF ClearErr
  <1>4. CASE Ask
    <2>1. Phase = "connecting"
      BY <1>0, <1>4 DEF Ask, Phase
    <2>2. CASE pc' = "close"
      <3>1. \E s \in Stages, e \in Errors :
               result' = [stage |-> s, error |-> e, timed_out |-> (e = "timeout")]
        BY <1>0, <1>4, <2>2 DEF Ask, Resolves, ResolveFails, Failure, Stages, Errors
      <3> QED
        BY <2>1, <2>2, <3>1, FailIsAttemptFail
    <2>3. CASE pc' # "close"
      BY <1>0, <1>4, <2>1, <2>3 DEF Ask, Resolves, ResolveFails, Failure, Phase, Attempt!vars
    <2> QED
      BY <2>2, <2>3
  <1>5. CASE WaitDns
    BY <1>0, <1>5 DEF WaitDns
  <1>6. CASE WaitDnsDeadline
    <2>1. Phase = "connecting"
      BY <1>0, <1>6 DEF WaitDnsDeadline, Phase
    <2>2. CASE pc' = "close"
      <3>1. \E s \in Stages, e \in Errors :
               result' = [stage |-> s, error |-> e, timed_out |-> (e = "timeout")]
        BY <1>0, <1>6, <2>2 DEF WaitDnsDeadline, ResolveFails, Failure, Stages, Errors
      <3> QED
        BY <2>1, <2>2, <3>1, FailIsAttemptFail
    <2>3. CASE pc' # "close"
      BY <1>0, <1>6, <2>1, <2>3 DEF WaitDnsDeadline, ResolveFails, Failure, Phase, Attempt!vars
    <2> QED
      BY <2>2, <2>3
  <1>7. CASE CheckDns
    <2>1. Phase = "connecting"
      BY <1>0, <1>7 DEF CheckDns, Phase
    <2>2. CASE pc' = "close"
      <3>1. \E s \in Stages, e \in Errors :
               result' = [stage |-> s, error |-> e, timed_out |-> (e = "timeout")]
        BY <1>0, <1>7, <2>2 DEF CheckDns, ResolveFails, Failure, Stages, Errors
      <3> QED
        BY <2>1, <2>2, <3>1, FailIsAttemptFail
    <2>3. CASE pc' # "close"
      BY <1>0, <1>7, <2>1, <2>3 DEF CheckDns, ResolveFails, Failure, Phase, Attempt!vars
    <2> QED
      BY <2>2, <2>3
  <1>8. CASE TakeAddress
    BY <1>0, <1>8 DEF TakeAddress, Resolves
  <1>9. CASE OpenTcp
    <2>1. Phase = "connecting"
      BY <1>0, <1>9 DEF OpenTcp, Phase
    <2>2. CASE pc' = "close"
      <3>1. \E s \in Stages, e \in Errors :
               result' = [stage |-> s, error |-> e, timed_out |-> (e = "timeout")]
        BY <1>0, <1>9, <2>2 DEF OpenTcp, Failure, Stages, Errors
      <3> QED
        BY <2>1, <2>2, <3>1, FailIsAttemptFail
    <2>3. CASE pc' # "close"
      BY <1>0, <1>9, <2>1, <2>3 DEF OpenTcp, Failure, Phase, Attempt!vars
    <2> QED
      BY <2>2, <2>3
  <1>10. CASE WaitTcp
    BY <1>0, <1>10 DEF WaitTcp
  <1>11. CASE WaitTcpDeadline
    <2>1. Phase = "connecting"
      BY <1>0, <1>11 DEF WaitTcpDeadline, Phase
    <2>2. CASE pc' = "close"
      <3>1. \E s \in Stages, e \in Errors :
               result' = [stage |-> s, error |-> e, timed_out |-> (e = "timeout")]
        BY <1>0, <1>11, <2>2 DEF WaitTcpDeadline, Failure, MeasureTcp, Stages, Errors
      <3> QED
        BY <2>1, <2>2, <3>1, FailIsAttemptFail
    <2>3. CASE pc' # "close"
      BY <1>0, <1>11, <2>1, <2>3 DEF WaitTcpDeadline, Failure, MeasureTcp, Phase, Attempt!vars
    <2> QED
      BY <2>2, <2>3
  <1>12. CASE CheckTcp
    <2>1. Phase = "connecting"
      BY <1>0, <1>12 DEF CheckTcp, Phase
    <2>2. CASE pc' = "close"
      <3>1. \E s \in Stages, e \in Errors :
               result' = [stage |-> s, error |-> e, timed_out |-> (e = "timeout")]
        BY <1>0, <1>12, <2>2 DEF CheckTcp, Failure, MeasureTcp, Stages, Errors
      <3> QED
        BY <2>1, <2>2, <3>1, FailIsAttemptFail
    <2>3. CASE pc' # "close"
      <3>1. Attempt!Establish
        BY <1>0, <1>12, <2>1, <2>3 DEF CheckTcp, Phase, Attempt!Establish
      <3> QED
        BY <3>1 DEF Attempt!Next
    <2> QED
      BY <2>2, <2>3
  <1>13. CASE WriteLocked
    <2>1. CASE pc' = "halted"
      <3>1. Attempt!Halt
        BY <1>0, <1>13, <2>1 DEF WriteLocked, Phase, Attempt!Halt
      <3> QED
        BY <3>1 DEF Attempt!Next
    <2>2. CASE pc' # "halted"
      BY <1>0, <1>13, <2>2 DEF WriteLocked, Phase, Attempt!vars
    <2> QED
      BY <2>1, <2>2
  <1>14. CASE ReadPoll
    BY <1>0, <1>14 DEF ReadPoll, Return, Fetched, Complete
  <1>15. CASE ReadDeadline
    BY <1>0, <1>15 DEF ReadDeadline, Return
  <1>16. CASE CloseCheckPcb
    BY <1>0, <1>16 DEF CloseCheckPcb
  <1>17. CASE CloseDetach
    <2>1. CASE pc' = "halted"
      <3>1. Attempt!Halt
        BY <1>0, <1>17, <2>1 DEF CloseDetach, Phase, Attempt!Halt
      <3> QED
        BY <3>1 DEF Attempt!Next
    <2>2. CASE pc' # "halted"
      BY <1>0, <1>17, <2>2 DEF CloseDetach, Phase, Attempt!vars
    <2> QED
      BY <2>1, <2>2
  <1>18. CASE CloseFree
    <2>1. Attempt!Return
      BY <1>0, <1>18 DEF CloseFree, Phase, Attempt!Return
    <2> QED
      BY <2>1 DEF Attempt!Next
  <1>19. CASE tls_write
    BY <1>0, <1>19 DEF tls_write
  <1>20. CASE tls_read
    BY <1>0, <1>20 DEF tls_read
  <1>21. CASE tls_close
    <2>1. Attempt!Close
      BY <1>0, <1>21 DEF tls_close, Phase, Attempt!Close
    <2> QED
      BY <2>1 DEF Attempt!Next
  <1>22. CASE dns_cb
    BY <1>0, <1>22 DEF dns_cb
  <1>23. CASE on_recv
    BY <1>0, <1>23 DEF on_recv
  <1>24. CASE on_recv_closed
    BY <1>0, <1>24 DEF on_recv_closed
  <1>25. CASE on_err
    BY <1>0, <1>25 DEF on_err
  <1>26. CASE Halted
    BY <1>0, <1>26 DEF Halted, vars
  <1>27. CASE \E err \in ConnErrs : on_connected(err)
    BY <1>0, <1>27 DEF on_connected
  <1>28. CASE UNCHANGED vars
    BY <1>0, <1>28 DEF vars
  <1> QED
    BY <1>1, <1>2, <1>3, <1>4, <1>5, <1>6, <1>7, <1>8, <1>9, <1>10, <1>11, <1>12, <1>13, <1>14,
       <1>15, <1>16, <1>17, <1>18, <1>19, <1>20, <1>21, <1>22, <1>23, <1>24, <1>25, <1>26, <1>27, <1>28
       DEF Next, Lookup, Connect, InOut, Closing, Application, Callback

-----------------------------------------------------------------------------
LEMMA NextInv == ASSUME IInv, [Next]_vars PROVE IInv'
  <1>1. TypeOK'
    BY MainTypeStep, FlagTypeStep, StreamTypeStep, LookupTypeStep, ResultStep DEF TypeOK
  <1> QED
    BY <1>1, PcbInvStep, ConnInvStep, LookupInvStep, StreamInvStep, ReadInvStep DEF IInv

LEMMA Inductive == Spec => []IInv
  BY InitInv, NextInv, PTL DEF Spec

(* Every variable keeps its type; in particular no read returns more than
   it was asked for. *)
THEOREM TypeCorrect == Spec => []TypeOK
  <1>1. IInv => TypeOK
    BY DEF IInv
  <1> QED
    BY <1>1, Inductive, PTL

(* No lwIP callback runs on a freed tls_conn_t and conn->pcb never names a
   PCB lwIP has freed. *)
THEOREM MemorySafety == Spec => [](CallbacksTargetLive /\ PcbNotDangling)
  <1>1. IInv => CallbacksTargetLive /\ PcbNotDangling
    BY DEF IInv, PcbInv, ConnInv, CallbacksTargetLive, PcbNotDangling
  <1> QED
    BY <1>1, Inductive, PTL

(* Every exit of tls_connect_plain_attempt and tls_close gives back what was
   taken. *)
THEOREM Released == Spec => []NothingLeaks
  <1>1. IInv => NothingLeaks
    BY DEF IInv, TypeOK, FlagType, StreamType, PcbInv, ConnInv, NothingLeaks
  <1> QED
    BY <1>1, Inductive, PTL

(* A read cut short by a close or by its deadline loses nothing it took. *)
THEOREM ReadsConserve == Spec => []ReadLosesNothing
  <1>1. IInv => ReadLosesNothing
    BY DEF IInv, StreamInv, ReadLosesNothing
  <1> QED
    BY <1>1, Inductive, PTL

(* A read is short only at the end of the connection or of its time. *)
THEOREM ShortReads == Spec => []ShortReadIsExplained
  <1>1. IInv => ShortReadIsExplained
    BY DEF IInv, ReadInv, ShortReadIsExplained
  <1> QED
    BY <1>1, Inductive, PTL

(* A lookup that fails with lwIP's error was failed by lwIP after it had asked, or an earlier
   request was failed between the reset of dns_err and its own: nothing older ends it. *)
THEOREM LookupFailures == Spec => []DnsFailureIsThisLookup
  <1>1. IInv => DnsFailureIsThisLookup
    BY DEF IInv, LookupInv
  <1> QED
    BY <1>1, Inductive, PTL

(* The plain transport keeps the contract of tls_transport.h. *)
THEOREM Refinement == Spec => RefinesAttempt
  <1>1. Init => Attempt!Init
    BY DEF Init, Attempt!Init, Phase, NoFailure, Attempt!NoFailure
  <1>2. IInv /\ [Next]_vars => [Attempt!Next]_(Attempt!vars)
    BY AttemptStep
  <1> QED
    BY <1>1, <1>2, Inductive, PTL DEF Spec, RefinesAttempt, Attempt!Spec
==============================================================================
