------------------------------ MODULE RpcProofs ------------------------------
(***************************************************************************)
(* Proofs about Rpc, for every number of requests, every driver and every  *)
(* combination of faults: a client is late by at most the number of        *)
(* requests it gave up, and it reads answers once and in order.  Proofs    *)
(* about ResourceManager, which serves such requests: for any number of    *)
(* queues, memories, handles and mirrors, the session serves as long as    *)
(* the tests keep to the common calls, the ids that the host holds name    *)
(* their objects, and every open descriptor has one owner.                 *)
(*                                                                         *)
(* For Rpc, the responses on their way to the host, the request the        *)
(* agent serves and the requests on their way to it form one increasing    *)
(* line.  Every number in the line is close to the last request (Ahead);   *)
(* sending moves the whole line one further away, which reading one answer *)
(* or giving up one request makes good.                                    *)
(***************************************************************************)
EXTENDS Rpc, ResourceManager, FiniteSetTheorems, WellFoundedInduction, TLAPS

(* One when the client waits for nothing. *)
Free == IF waiting = Nobody THEN 1 ELSE 0

(* What holds of the number of every request whose answer may be read. *)
Ahead(r) ==
  /\ 0 < r /\ r <= sent
  /\ sent + Free <= r + Cardinality(abandoned)
  /\ \A i \in DOMAIN returned : returned[i].answer < r

WaitsForLast ==
  /\ abandoned \subseteq 1..sent
  /\ waiting # Nobody => waiting.id = sent /\ sent > 0 /\ sent \notin abandoned
  /\ \A i \in DOMAIN returned : returned[i].answer <= sent

ResponsesAhead == \A i \in DOMAIN responses : Ahead(responses[i].id)
ServingAhead == agent = "driver" => Ahead(serving.id)
RequestsAhead == agent # "gone" => \A i \in DOMAIN requests : Ahead(requests[i].id)

Increasing(s) == \A i, j \in DOMAIN s : i < j => s[i].id < s[j].id

OneLine ==
  /\ Increasing(responses)
  /\ agent # "gone" =>
       /\ Increasing(requests)
       /\ \A i \in DOMAIN responses, j \in DOMAIN requests : responses[i].id < requests[j].id
  /\ agent = "driver" =>
       /\ \A i \in DOMAIN responses : responses[i].id < serving.id
       /\ \A j \in DOMAIN requests : serving.id < requests[j].id

ClientInv == WaitsForLast /\ LagIsBounded /\ AnswersInOrder
LineInv == ResponsesAhead /\ ServingAhead /\ RequestsAhead /\ OneLine

IInv ==
  TypeOK /\ ClientInv /\ LineInv
-----------------------------------------------------------------------------
(* What Head and Tail are, position by position. *)
LEMMA TailFacts ==
  ASSUME NEW S, NEW s \in Seq(S), s # <<>>
  PROVE  /\ Head(s) = s[1] /\ 1 \in DOMAIN s /\ s[1] \in S
         /\ Tail(s) \in Seq(S)
         /\ \A i \in DOMAIN Tail(s) : i \in Nat /\ i >= 1 /\ i + 1 \in DOMAIN s
                                      /\ Tail(s)[i] = s[i + 1]
  OBVIOUS

(* What Append is, position by position. *)
LEMMA AppendFacts ==
  ASSUME NEW S, NEW s \in Seq(S), NEW e \in S
  PROVE  /\ Append(s, e) \in Seq(S)
         /\ DOMAIN Append(s, e) = DOMAIN s \cup {Len(s) + 1}
         /\ Append(s, e)[Len(s) + 1] = e
         /\ \A i \in DOMAIN s : i \in Nat /\ i < Len(s) + 1 /\ Append(s, e)[i] = s[i]
  OBVIOUS

(* An increasing sequence stays so without its head ... *)
LEMMA IncreasingTail ==
  ASSUME NEW S, NEW s \in Seq(S), s # <<>>, Increasing(s)
  PROVE  Increasing(Tail(s)) /\ \A i \in DOMAIN Tail(s) : Head(s).id < Tail(s)[i].id
  BY TailFacts, SMTT(40) DEF Increasing

(* ... and with a larger element at its end. *)
LEMMA IncreasingAppend ==
  ASSUME NEW S, NEW s \in Seq(S), NEW e \in S, Increasing(s),
         \A i \in DOMAIN s : s[i].id < e.id
  PROVE  Increasing(Append(s, e))
  BY AppendFacts, SMT DEF Increasing

(* The number of requests given up is a natural number. *)
LEMMA AbandonedFinite ==
  ASSUME sent \in Nat, abandoned \subseteq 1..sent
  PROVE  IsFiniteSet(abandoned) /\ Cardinality(abandoned) \in Nat
  <1>1. IsFiniteSet(1..sent)
    BY FS_Interval
  <1>2. IsFiniteSet(abandoned)
    BY <1>1, FS_Subset, Zenon
  <1> QED BY <1>2, FS_CardinalityType, Zenon

(* The client's request is not among those given up: with it there is one  *)
(* more.                                                                   *)
LEMMA AbandonCounts ==
  ASSUME TypeOK, WaitsForLast, waiting # Nobody
  PROVE  /\ Cardinality(abandoned \cup {waiting.id}) = Cardinality(abandoned) + 1
         /\ abandoned \cup {waiting.id} \subseteq 1..sent
         /\ waiting.id = sent
  <1>1. sent \in Nat /\ waiting.id = sent /\ sent > 0 /\ sent \notin abandoned
    BY ConstantsAssumption DEF TypeOK, ClientType, WaitsForLast
  <1>2. IsFiniteSet(abandoned)
    BY <1>1, AbandonedFinite, Zenon DEF WaitsForLast
  <1>3. Cardinality(abandoned \cup {waiting.id}) = Cardinality(abandoned) + 1
    BY <1>1, <1>2, FS_AddElement, Zenon
  <1>4. sent \in 1..sent
    BY <1>1
  <1>5. abandoned \subseteq 1..sent
    BY Zenon DEF WaitsForLast
  <1>6. abandoned \cup {waiting.id} \subseteq 1..sent
    BY <1>1, <1>4, <1>5, Zenon
  <1> QED BY <1>1, <1>3, <1>6, Zenon
-----------------------------------------------------------------------------
(* The records the messages are made of. *)
LEMMA RecordTypes ==
  /\ Nobody \in Requests
  /\ \A n \in Nat, k \in Kinds : [id |-> n, kind |-> k] \in Requests
  /\ \A n \in Nat, c \in Codes : [id |-> n, code |-> c] \in Responses
  /\ \A n \in Nat, e \in BOOLEAN : [id |-> n, empty |-> e] \in Results
  /\ \A r \in Requests : r.id \in Nat /\ r.kind \in Kinds
  /\ \A r \in Responses : r.id \in Nat /\ r.code \in Codes
  /\ \A r \in Returns : r.answer \in Nat /\ r.id \in Nat
  BY Zenon DEF Nobody, Requests, Responses, Results, Returns, Kinds

(* What a call returns is a record of Returns. *)
LEMMA ReturnTypes ==
  ASSUME NEW r \in Requests, NEW n \in Nat, NEW o \in {"ok", "failed", "unchecked"}
  PROVE  [id |-> r.id, kind |-> r.kind, answer |-> n, outcome |-> o] \in Returns
  BY RecordTypes, Zenon DEF Returns

(* Return keeps the types of the client. *)
LEMMA ReturnStep ==
  ASSUME ClientType, NEW n \in Nat, NEW c \in Codes, Return(n, c),
         UNCHANGED <<channel, sent, abandoned>>
  PROVE  ClientType'
  <1>1. Outcome(waiting.kind, c) \in {"ok", "failed", "unchecked"}
    BY Zenon DEF Outcome
  <1>2. returned' \in Seq(Returns)
    BY <1>1, ReturnTypes, AppendFacts, ZenonT(40) DEF Return, ClientType
  <1>3. waiting' \in Requests /\ reads' \in 0..3
    BY RecordTypes DEF Return
  <1>4. launched' \in BOOLEAN /\ error' \in BOOLEAN
    BY Zenon DEF Return, ClientType
  <1> QED BY <1>2, <1>3, <1>4, Zenon DEF ClientType

(* Respond keeps the types of the connection and of the agent's state. *)
LEMMA RespondStep ==
  ASSUME TypeOK, NEW n \in Nat, NEW c \in Codes, Respond(n, c)
  PROVE  responses' \in Seq(Responses) /\ agent' \in {"idle", "driver", "gone"}
         /\ serving' \in Requests
  <1>1. [id |-> n, code |-> c] \in Responses
    BY RecordTypes, Zenon
  <1>2. Append(responses, [id |-> n, code |-> c]) \in Seq(Responses)
    BY <1>1, AppendFacts, Zenon DEF TypeOK, PipeType
  <1> QED BY <1>2, RecordTypes, Zenon DEF Respond, TypeOK, PipeType

(* Every step keeps the types. *)
LEMMA TypeStep ==
  ASSUME TypeOK, [Next]_vars
  PROVE  TypeOK'
  <1> USE DEF TypeOK
  <1>1. ASSUME NEW k \in Kinds, SendCommand(k) PROVE TypeOK'
    <2>1. sent \in Nat /\ sent' \in 0..MaxRequests
      BY <1>1, ConstantsAssumption DEF SendCommand, ClientType
    <2>2. waiting' \in Requests
      BY <1>1, <2>1, RecordTypes DEF SendCommand
    <2>3. requests' \in Seq(Requests)
      BY <1>1, <2>2, AppendFacts, Zenon DEF SendCommand, PipeType
    <2>4. reads' \in 0..3
      BY <1>1 DEF SendCommand, Reads
    <2> QED
      BY <1>1, <2>1, <2>2, <2>3, <2>4, Zenon DEF SendCommand, ClientType, PipeType, DeviceType, device
  <1>2. CASE RecvResponse
    <2>1. Head(responses) \in Responses /\ Tail(responses) \in Seq(Responses)
      BY <1>2, TailFacts, Zenon DEF RecvResponse, PipeType
    <2>2. Head(responses).id \in Nat /\ Head(responses).code \in Codes
      BY <2>1, RecordTypes, Zenon
    <2>3. ClientType'
      BY <1>2, <2>2, ReturnStep, Zenon DEF RecvResponse
    <2> QED BY <1>2, <2>1, <2>3, Zenon DEF RecvResponse, PipeType, DeviceType, device
  <1>3. CASE RecvEof
    <2>1. ClientType'
      BY <1>3, ReturnStep, Zenon DEF RecvEof, Codes
    <2> QED BY <1>3, <2>1, Zenon DEF RecvEof, PipeType, DeviceType, device
  <1>4. CASE SocketTimeout
    <2>1. waiting.id \in Nat
      BY RecordTypes, Zenon DEF ClientType
    <2>2. returned' \in Seq(Returns)
      <3>1. [id |-> waiting.id, kind |-> waiting.kind, answer |-> 0, outcome |-> "failed"]
              \in Returns
        BY ReturnTypes, Zenon DEF ClientType
      <3> QED BY <1>4, <3>1, AppendFacts, SMTT(40) DEF SocketTimeout, ClientType
    <2>3. reads' \in 0..3 /\ waiting' \in Requests
      BY <1>4, RecordTypes DEF SocketTimeout, ClientType
    <2>4. abandoned' \subseteq Nat /\ error' \in BOOLEAN
      BY <1>4, <2>1, Zenon DEF SocketTimeout, ClientType
    <2> QED BY <1>4, <2>2, <2>3, <2>4, Zenon DEF SocketTimeout, ClientType, PipeType, DeviceType, device
  <1>5. CASE Interrupted
    <2>1. waiting.id \in Nat /\ waiting' \in Requests /\ reads' \in 0..3
      BY <1>5, RecordTypes DEF ClientType, Interrupted
    <2>2. abandoned' \subseteq Nat /\ error' \in BOOLEAN
      BY <1>5, <2>1, Zenon DEF Interrupted, ClientType
    <2> QED BY <1>5, <2>1, <2>2, Zenon DEF Interrupted, ClientType, PipeType, DeviceType, device
  <1>6. CASE Disconnect
    BY <1>6, Zenon DEF Disconnect, ClientType, PipeType, DeviceType, device
  <1>a. ASSUME NEW ks, Receive(ks) PROVE requests' \in Seq(Requests) /\ Head(requests) \in Requests
                                        /\ Head(requests).id \in Nat
    BY <1>a, TailFacts, RecordTypes DEF Receive, PipeType
  <1>7. CASE ProcessLocal
    <2>1. PICK c \in {"SUCCESS", "FAIL"} : Respond(Head(requests).id, c)
      BY <1>7, Zenon DEF ProcessLocal
    <2>2. requests' \in Seq(Requests) /\ Head(requests).id \in Nat
      BY <1>7, <1>a, Zenon DEF ProcessLocal
    <2>3. responses' \in Seq(Responses) /\ agent' \in {"idle", "driver", "gone"}
          /\ serving' \in Requests
      BY <2>1, <2>2, RespondStep, Zenon DEF Codes
    <2> QED BY <1>7, <2>2, <2>3, Zenon DEF ProcessLocal, ClientType, PipeType, DeviceType, client
  <1>8. CASE LaunchDriverService
    <2>1. PICK o \in {"no_driver", "load_fails", "load_crashes", "ok"} :
            /\ Respond(Head(requests).id, IF o = "ok" THEN "SUCCESS" ELSE "FAIL")
            /\ driver_client_' = (driver_client_ \/ o # "no_driver")
            /\ driver' = IF o = "no_driver" THEN driver
                         ELSE IF o = "load_crashes" THEN "gone" ELSE "idle"
            /\ commands' = IF o = "no_driver" THEN commands ELSE <<>>
            /\ results' = IF o = "no_driver" THEN results ELSE <<>>
      BY <1>8, Zenon DEF LaunchDriverService
    <2>2. requests' \in Seq(Requests) /\ Head(requests).id \in Nat
      BY <1>8, <1>a, Zenon DEF LaunchDriverService
    <2>3. responses' \in Seq(Responses) /\ agent' \in {"idle", "driver", "gone"}
          /\ serving' \in Requests
      BY <2>1, <2>2, RespondStep, Zenon DEF Codes
    <2>4. driver_client_' \in BOOLEAN /\ driver' \in {"none", "idle", "gone"}
      BY <2>1, Zenon DEF DeviceType
    <2>5. commands' \in Seq(Requests) /\ results' \in Seq(Results)
      BY <2>1 DEF DeviceType
    <2> QED BY <1>8, <2>2, <2>3, <2>4, <2>5, Zenon DEF LaunchDriverService, ClientType, PipeType, DeviceType, client

  <1>9. CASE ForwardToDriver
    <2>1. requests' \in Seq(Requests) /\ Head(requests) \in Requests
      BY <1>9, <1>a, Zenon DEF ForwardToDriver
    <2>2. Append(commands, Head(requests)) \in Seq(Requests)
      BY <2>1, AppendFacts, Zenon DEF DeviceType
    <2> QED BY <1>9, <2>1, <2>2, Zenon DEF ForwardToDriver, ClientType, PipeType, DeviceType, client
  <1>b. serving.id \in Nat
    BY RecordTypes, Zenon DEF DeviceType
  <1>10. CASE ReplyFromDriver
    <2>1. responses' \in Seq(Responses) /\ agent' \in {"idle", "driver", "gone"}
          /\ serving' \in Requests
      BY <1>10, <1>b, RespondStep, Zenon DEF Codes, ReplyFromDriver
    <2>2. results' \in Seq(Results)
      BY <1>10, TailFacts, Zenon DEF ReplyFromDriver, DeviceType
    <2> QED BY <1>10, <2>1, <2>2, Zenon DEF ReplyFromDriver, ClientType, PipeType, DeviceType, client
  <1>11. CASE DriverEof
    <2>1. responses' \in Seq(Responses) /\ agent' \in {"idle", "driver", "gone"}
          /\ serving' \in Requests
      BY <1>11, <1>b, RespondStep, Zenon DEF Codes, DriverEof
    <2> QED BY <1>11, <2>1, Zenon DEF DriverEof, ClientType, PipeType, DeviceType, client
  <1>12. CASE AgentEof
    BY <1>12, Zenon DEF AgentEof, ClientType, PipeType, DeviceType, client
  <1>13. CASE DriverServes
    <2>1. Head(commands) \in Requests /\ Tail(commands) \in Seq(Requests)
          /\ Head(commands).id \in Nat
      BY <1>13, TailFacts, RecordTypes DEF DriverServes, DeviceType
    <2>2. PICK r \in HalAnswers(Head(commands)) \cup ShellAnswers(Head(commands)) :
            results' = Append(results, r)
      BY <1>13, Zenon DEF DriverServes
    <2>3. r \in Results
      <3>1. CASE r \in ShellAnswers(Head(commands))
        BY <2>1, <3>1, RecordTypes, Zenon DEF ShellAnswers
      <3>2. CASE r \in [id : {Head(commands).id}, empty : BOOLEAN]
        BY <2>1, <3>2, Zenon DEF Results
      <3>3. CASE r \in [id : {Head(commands).id}, empty : {FALSE}]
        BY <2>1, <3>3, Zenon DEF Results
      <3> QED BY <2>2, <3>1, <3>2, <3>3, Zenon DEF HalAnswers
    <2>4. results' \in Seq(Results)
      BY <2>2, <2>3, AppendFacts, Zenon DEF DeviceType
    <2> QED BY <1>13, <2>1, <2>4, Zenon DEF DriverServes, ClientType, PipeType, DeviceType, client
  <1>14. CASE DriverReadsEof
    BY <1>14, Zenon DEF DriverReadsEof, ClientType, PipeType, DeviceType, client
  <1>15. CASE DriverCrash
    BY <1>15, Zenon DEF DriverCrash, ClientType, PipeType, DeviceType, client
  <1>16. CASE UNCHANGED vars
    BY <1>16, Zenon DEF vars, client, device, ClientType, PipeType, DeviceType
  <1> QED
    BY <1>1, <1>2, <1>3, <1>4, <1>5, <1>6, <1>7, <1>8, <1>9, <1>10, <1>11, <1>12, <1>13,
       <1>14, <1>15, <1>16, Zenon DEF Next, AgentStep, DriverStep
-----------------------------------------------------------------------------
(* Ahead depends only on these variables. *)
LEMMA AheadUnchanged ==
  ASSUME UNCHANGED <<waiting, sent, abandoned, returned>>, NEW r
  PROVE  Ahead(r)' <=> Ahead(r)
  BY Zenon DEF Ahead, Free

(* The client's part of the invariant depends only on the same variables. *)
LEMMA ClientUnchanged ==
  ASSUME ClientInv, UNCHANGED <<waiting, sent, abandoned, returned>>
  PROVE  ClientInv'
  BY Zenon DEF ClientInv, WaitsForLast, LagIsBounded, AnswersInOrder

(* The numbers of messages are natural numbers. *)
LEMMA NumberTypes ==
  ASSUME TypeOK
  PROVE  /\ sent \in Nat /\ serving.id \in Nat /\ waiting.id \in Nat
         /\ \A i \in DOMAIN requests : requests[i] \in Requests /\ requests[i].id \in Nat
         /\ \A i \in DOMAIN responses : responses[i] \in Responses /\ responses[i].id \in Nat
         /\ \A i \in DOMAIN returned : returned[i].answer \in Nat /\ returned[i].id \in Nat
  <1>1. sent \in Nat
    BY ConstantsAssumption DEF TypeOK, ClientType
  <1>2. serving.id \in Nat /\ waiting.id \in Nat
    BY RecordTypes, Zenon DEF TypeOK, ClientType, DeviceType
  <1>3. ASSUME NEW i \in DOMAIN requests PROVE requests[i] \in Requests
    BY <1>3 DEF TypeOK, PipeType
  <1>4. ASSUME NEW i \in DOMAIN responses PROVE responses[i] \in Responses
    BY <1>4 DEF TypeOK, PipeType
  <1>5. ASSUME NEW i \in DOMAIN returned PROVE returned[i] \in Returns
    BY <1>5 DEF TypeOK, ClientType
  <1> QED BY <1>1, <1>2, <1>3, <1>4, <1>5, RecordTypes, Zenon

(* A response that is sent goes to the end of the responses, before the    *)
(* requests that are left.                                                 *)
LEMMA RespondKeepsLine ==
  ASSUME TypeOK, LineInv, UNCHANGED client, agent # "gone",
         NEW n \in Nat, NEW c \in Codes, Respond(n, c), Ahead(n),
         \A i \in DOMAIN responses : responses[i].id < n,
         Increasing(requests'),
         \A i \in DOMAIN requests' : n < requests'[i].id /\ Ahead(requests'[i].id),
         \A i \in DOMAIN responses, j \in DOMAIN requests' :
            responses[i].id < requests'[j].id
  PROVE  LineInv'
  <1>0. UNCHANGED <<waiting, sent, abandoned, returned>>
    BY Zenon DEF client
  <1>1. CASE channel = "open"
    <2> DEFINE e == [id |-> n, code |-> c]
    <2>1. e \in Responses /\ e.id = n
      BY RecordTypes, Zenon
    <2>2. responses' = Append(responses, e) /\ agent' = "idle"
      BY <1>1, Zenon DEF Respond
    <2>3. responses \in Seq(Responses)
      BY Zenon DEF TypeOK, PipeType
    <2> HIDE DEF e
    <2>4. /\ DOMAIN responses' = DOMAIN responses \cup {Len(responses) + 1}
          /\ responses'[Len(responses) + 1] = e
          /\ \A i \in DOMAIN responses : responses'[i] = responses[i]
      BY <2>1, <2>2, <2>3, AppendFacts
    <2>5. ResponsesAhead'
      BY <1>0, <2>1, <2>4, AheadUnchanged, Zenon DEF LineInv, ResponsesAhead
    <2>6. ServingAhead' /\ RequestsAhead'
      BY <1>0, <2>2, AheadUnchanged, Zenon DEF ServingAhead, RequestsAhead
    <2>7. Increasing(responses')
      BY <2>1, <2>2, <2>3, IncreasingAppend, Zenon DEF LineInv, OneLine
    <2>8. \A i \in DOMAIN responses', j \in DOMAIN requests' :
             responses'[i].id < requests'[j].id
      BY <2>1, <2>4, Zenon
    <2>9. OneLine'
      BY <2>2, <2>7, <2>8, Zenon DEF OneLine, Increasing
    <2> QED BY <2>5, <2>6, <2>9, Zenon DEF LineInv
  <1>2. CASE channel # "open"
    <2>1. responses' = responses /\ agent' = "gone"
      BY <1>2, Zenon DEF Respond
    <2>2. ResponsesAhead'
      BY <1>0, <2>1, AheadUnchanged, Zenon DEF LineInv, ResponsesAhead
    <2> QED BY <2>1, <2>2, Zenon DEF LineInv, ServingAhead, RequestsAhead, OneLine, Increasing
  <1> QED BY <1>1, <1>2, Zenon

(* The head of the requests is served next, with the rest behind it. *)
LEMMA ReceiveKeepsLine ==
  ASSUME TypeOK, LineInv, NEW ks, Receive(ks)
  PROVE  /\ agent = "idle" /\ Head(requests).id \in Nat /\ Ahead(Head(requests).id)
         /\ \A i \in DOMAIN responses : responses[i].id < Head(requests).id
         /\ Increasing(requests')
         /\ \A i \in DOMAIN requests' : /\ Head(requests).id < requests'[i].id
                                        /\ Ahead(requests'[i].id)
         /\ \A i \in DOMAIN responses, j \in DOMAIN requests' :
              responses[i].id < requests'[j].id
  <1>1. /\ agent = "idle" /\ requests # <<>> /\ requests' = Tail(requests)
        /\ requests \in Seq(Requests)
    BY Zenon DEF Receive, TypeOK, PipeType
  <1>2. /\ Head(requests) = requests[1] /\ 1 \in DOMAIN requests
        /\ \A i \in DOMAIN requests' : i + 1 \in DOMAIN requests /\ requests'[i] = requests[i + 1]
    BY <1>1, TailFacts, Zenon
  <1>3. Head(requests).id \in Nat
    BY <1>2, NumberTypes, Zenon
  <1>4. Ahead(Head(requests).id) /\ \A i \in DOMAIN requests' : Ahead(requests'[i].id)
    BY <1>1, <1>2, Zenon DEF LineInv, RequestsAhead
  <1>5. Increasing(requests)
    BY <1>1, Zenon DEF LineInv, OneLine
  <1>6. Increasing(requests') /\ \A i \in DOMAIN requests' : Head(requests).id < requests'[i].id
    BY <1>1, <1>5, IncreasingTail, Zenon
  <1>7. \A i \in DOMAIN responses : responses[i].id < Head(requests).id
    BY <1>1, <1>2, Zenon DEF LineInv, OneLine
  <1>8. \A i \in DOMAIN responses, j \in DOMAIN requests' : responses[i].id < requests'[j].id
    BY <1>1, <1>2, Zenon DEF LineInv, OneLine
  <1> QED BY <1>1, <1>3, <1>4, <1>6, <1>7, <1>8, Zenon
-----------------------------------------------------------------------------
(* Sending: the line moves one away from the last request. *)
LEMMA SendStep ==
  ASSUME IInv, NEW k \in Kinds, SendCommand(k)
  PROVE  ClientInv' /\ LineInv'
  <1> DEFINE C == Cardinality(abandoned)
             e == [id |-> sent + 1, kind |-> k]
  <1>1. sent \in Nat /\ C \in Nat /\ waiting = Nobody
    BY NumberTypes, AbandonedFinite, Zenon DEF IInv, ClientInv, WaitsForLast, SendCommand
  <1>2. /\ sent' = sent + 1 /\ waiting' = e /\ requests' = Append(requests, e)
        /\ UNCHANGED <<abandoned, returned, responses, agent, serving>>
    BY Zenon DEF SendCommand, device
  <1>3. e \in Requests /\ e.id = sent + 1 /\ e # Nobody
    BY <1>1, RecordTypes DEF Nobody
  <1>4. Free = 1 /\ Free' = 0
    BY <1>1, <1>2, <1>3, Zenon DEF Free
  <1> HIDE DEF C, e
  <1>5. C = Cardinality(abandoned) /\ C = Cardinality(abandoned')
    BY <1>2, Zenon DEF C
  <1>6. ASSUME NEW r \in Nat, Ahead(r) PROVE Ahead(r)'
    BY <1>1, <1>2, <1>4, <1>5, <1>6 DEF Ahead
  <1>7. Ahead(sent)'
    <2>1. \A i \in DOMAIN returned : returned[i].answer < sent + 1
      BY <1>1, NumberTypes DEF IInv, ClientInv, WaitsForLast
    <2> QED BY <1>1, <1>2, <1>4, <1>5, <2>1 DEF Ahead
  <1>8. ClientInv'
    <2>1. abandoned' \subseteq 1..sent' /\ sent' \notin abandoned'
      BY <1>1, <1>2 DEF IInv, ClientInv, WaitsForLast
    <2>2. \A i \in DOMAIN returned : returned[i].answer <= sent'
      BY <1>1, <1>2, NumberTypes DEF IInv, ClientInv, WaitsForLast
    <2>3. WaitsForLast'
      BY <1>1, <1>2, <1>3, <2>1, <2>2 DEF WaitsForLast
    <2> QED BY <1>2, <2>3, Zenon DEF IInv, ClientInv, LagIsBounded, AnswersInOrder
  <1>9. requests \in Seq(Requests)
    BY Zenon DEF IInv, TypeOK, PipeType
  <1>10. /\ DOMAIN requests' = DOMAIN requests \cup {Len(requests) + 1}
         /\ requests'[Len(requests) + 1] = e
         /\ \A i \in DOMAIN requests : requests'[i] = requests[i]
    BY <1>2, <1>3, <1>9, AppendFacts
  <1>11. ResponsesAhead'
    BY <1>2, <1>6, NumberTypes, Zenon DEF IInv, LineInv, ResponsesAhead
  <1>12. ServingAhead'
    BY <1>2, <1>6, NumberTypes, Zenon DEF IInv, LineInv, ServingAhead
  <1>13. RequestsAhead'
    <2>1. requests'[Len(requests) + 1].id = sent'
      BY <1>2, <1>3, <1>10, Zenon
    <2>2. agent # "gone" => \A i \in DOMAIN requests : Ahead(requests[i].id)'
      BY <1>2, <1>6, <1>10, NumberTypes, Zenon DEF IInv, LineInv, RequestsAhead
    <2> QED BY <1>2, <1>7, <1>10, <2>1, <2>2, Zenon DEF RequestsAhead
  <1>14. OneLine'
    <2>1. CASE agent = "gone"
      BY <1>2, <2>1, Zenon DEF IInv, LineInv, OneLine, Increasing
    <2>2. CASE agent # "gone"
      <3>1. \A i \in DOMAIN requests : requests[i].id < sent + 1
        BY <1>1, <2>2, NumberTypes DEF IInv, LineInv, RequestsAhead, Ahead
      <3>2. \A i \in DOMAIN responses : responses[i].id < sent + 1
        BY <1>1, <2>2, NumberTypes DEF IInv, LineInv, ResponsesAhead, Ahead
      <3>3. agent = "driver" => serving.id < sent + 1
        BY <1>1, <2>2, NumberTypes DEF IInv, LineInv, ServingAhead, Ahead
      <3>4. Increasing(requests')
        BY <1>2, <1>3, <1>9, <2>2, <3>1, IncreasingAppend, Zenon DEF IInv, LineInv, OneLine
      <3>5. \A i \in DOMAIN responses, j \in DOMAIN requests' : responses[i].id < requests'[j].id
        BY <1>3, <1>10, <2>2, <3>2, Zenon DEF IInv, LineInv, OneLine
      <3>6. agent = "driver" => \A j \in DOMAIN requests' : serving.id < requests'[j].id
        BY <1>3, <1>10, <2>2, <3>3, Zenon DEF IInv, LineInv, OneLine
      <3> QED BY <1>2, <3>4, <3>5, <3>6, Zenon DEF IInv, LineInv, OneLine, Increasing
    <2> QED BY <2>1, <2>2, Zenon
  <1> QED BY <1>8, <1>11, <1>12, <1>13, <1>14, Zenon DEF LineInv

(* Reading a response: it is the first of the line, and the rest is one    *)
(* closer to the last request than it was.                                 *)
LEMMA RecvStep ==
  ASSUME IInv, RecvResponse
  PROVE  ClientInv' /\ LineInv'
  <1> DEFINE C == Cardinality(abandoned)
             h == Head(responses).id
             e == [id |-> waiting.id, kind |-> waiting.kind, answer |-> h,
                   outcome |-> Outcome(waiting.kind, Head(responses).code)]
  <1>1. sent \in Nat /\ C \in Nat /\ waiting # Nobody /\ waiting.id = sent
    BY NumberTypes, AbandonedFinite, Zenon DEF IInv, ClientInv, WaitsForLast, RecvResponse
  <1>2. /\ waiting' = Nobody /\ returned' = Append(returned, e) /\ responses' = Tail(responses)
        /\ responses # <<>> /\ UNCHANGED <<abandoned, sent, requests, agent, serving>>
    BY Zenon DEF RecvResponse, Return, device
  <1>3. e.id = sent /\ e.answer = h
    BY <1>1, Zenon
  <1>4. responses \in Seq(Responses) /\ returned \in Seq(Returns)
    BY Zenon DEF IInv, TypeOK, PipeType, ClientType
  <1>5. /\ h = responses[1].id /\ 1 \in DOMAIN responses
        /\ \A i \in DOMAIN responses' : i + 1 \in DOMAIN responses
                                       /\ responses'[i] = responses[i + 1]
    BY <1>2, <1>4, TailFacts, Zenon
  <1>6. h \in Nat /\ Ahead(h)
    BY <1>5, NumberTypes, Zenon DEF IInv, LineInv, ResponsesAhead
  <1>7. Free = 0 /\ Free' = 1
    BY <1>1, <1>2, Zenon DEF Free
  <1>8. e \in Returns
    <2>1. Outcome(waiting.kind, Head(responses).code) \in {"ok", "failed", "unchecked"}
      BY Zenon DEF Outcome
    <2>2. waiting \in Requests
      BY Zenon DEF IInv, TypeOK, ClientType
    <2> QED BY <1>6, <2>1, <2>2, ReturnTypes, Zenon
  <1> HIDE DEF C, h, e
  <1>9. /\ DOMAIN returned' = DOMAIN returned \cup {Len(returned) + 1}
        /\ returned'[Len(returned) + 1] = e
        /\ \A i \in DOMAIN returned : /\ returned'[i] = returned[i]
                                       /\ i \in Nat /\ i < Len(returned) + 1
        /\ Len(returned) \in Nat
    BY <1>2, <1>4, <1>8, AppendFacts
  <1>10. C = Cardinality(abandoned) /\ C = Cardinality(abandoned')
    BY <1>2, Zenon DEF C
  <1>11. ASSUME NEW r \in Nat, Ahead(r), h < r PROVE Ahead(r)'
    <2>1. \A i \in DOMAIN returned' : returned'[i].answer < r
      BY <1>3, <1>9, <1>11, Zenon DEF Ahead
    <2>2. sent + 1 <= r + C
      BY <1>1, <1>6, <1>7, <1>10, <1>11 DEF Ahead
    <2> QED BY <1>2, <1>7, <1>10, <1>11, <2>1, <2>2, Zenon DEF Ahead
  <1>12. h <= sent /\ sent <= h + C /\ \A i \in DOMAIN returned : returned[i].answer < h
    BY <1>1, <1>6, <1>7, <1>10 DEF Ahead
  <1>13. WaitsForLast'
    <2>1. \A i \in DOMAIN returned' : returned'[i].answer <= sent
      BY <1>3, <1>9, <1>12, Zenon DEF IInv, ClientInv, WaitsForLast
    <2> QED BY <1>2, <2>1, Zenon DEF IInv, ClientInv, WaitsForLast
  <1>14. LagIsBounded'
    BY <1>2, <1>3, <1>9, <1>10, <1>12, Zenon DEF IInv, ClientInv, LagIsBounded
  <1>15. AnswersInOrder'
    <2> SUFFICES ASSUME NEW i \in DOMAIN returned', NEW j \in DOMAIN returned', i < j,
                        returned'[i].answer # 0, returned'[j].answer # 0
                 PROVE  returned'[i].answer < returned'[j].answer
      BY Zenon DEF AnswersInOrder
    <2>1. i \in DOMAIN returned
      BY <1>9
    <2>2. CASE j \in DOMAIN returned
      BY <1>9, <2>1, <2>2, Zenon DEF IInv, ClientInv, AnswersInOrder
    <2>3. CASE j = Len(returned) + 1
      BY <1>3, <1>9, <1>12, <2>1, <2>3, Zenon
    <2> QED BY <1>9, <2>2, <2>3, Zenon
  <1>16. Increasing(responses') /\ \A i \in DOMAIN responses' : h < responses'[i].id
    BY <1>2, <1>4, IncreasingTail, Zenon DEF IInv, LineInv, OneLine, h
  <1>17. ResponsesAhead'
    BY <1>5, <1>11, <1>16, NumberTypes, Zenon DEF IInv, LineInv, ResponsesAhead
  <1>18. ServingAhead'
    <2>1. agent = "driver" => h < serving.id
      BY <1>5, Zenon DEF IInv, LineInv, OneLine
    <2> QED BY <1>2, <1>11, <2>1, NumberTypes, Zenon DEF IInv, LineInv, ServingAhead
  <1>19. RequestsAhead'
    <2>1. agent # "gone" => \A j \in DOMAIN requests : h < requests[j].id
      BY <1>5, Zenon DEF IInv, LineInv, OneLine
    <2> QED BY <1>2, <1>11, <2>1, NumberTypes, Zenon DEF IInv, LineInv, RequestsAhead
  <1>20. OneLine'
    BY <1>2, <1>5, <1>16, Zenon DEF IInv, LineInv, OneLine, Increasing
  <1> QED BY <1>13, <1>14, <1>15, <1>17, <1>18, <1>19, <1>20, Zenon DEF ClientInv, LineInv
(* A call that ends without an answer: the zero it leaves in returned      *)
(* disturbs no order.                                                      *)
LEMMA NoAnswer ==
  ASSUME IInv, waiting # Nobody, NEW o \in {"ok", "failed", "unchecked"},
         returned' = Append(returned, [id |-> waiting.id, kind |-> waiting.kind,
                                       answer |-> 0, outcome |-> o])
  PROVE  /\ \A i \in DOMAIN returned' : returned'[i].answer = 0 \/
              (i \in DOMAIN returned /\ returned'[i] = returned[i])
         /\ DOMAIN returned \subseteq DOMAIN returned'
  <1> DEFINE e == [id |-> waiting.id, kind |-> waiting.kind, answer |-> 0, outcome |-> o]
  <1>1. e \in Returns /\ e.answer = 0
    BY ReturnTypes, Zenon DEF IInv, TypeOK, ClientType
  <1>2. returned \in Seq(Returns) /\ returned' = Append(returned, e)
    BY Zenon DEF IInv, TypeOK, ClientType
  <1> HIDE DEF e
  <1> QED BY <1>1, <1>2, AppendFacts

(* The end of the connection is read: nothing is left in the line. *)
LEMMA EofStep ==
  ASSUME IInv, RecvEof
  PROVE  ClientInv' /\ LineInv'
  <1>1. /\ waiting # Nobody /\ waiting' = Nobody /\ responses = <<>> /\ agent = "gone"
        /\ UNCHANGED <<abandoned, sent, requests, responses, agent, serving>>
    BY Zenon DEF RecvEof, Return, device
  <1>2. /\ \A i \in DOMAIN returned' : returned'[i].answer = 0 \/
              (i \in DOMAIN returned /\ returned'[i] = returned[i])
        /\ DOMAIN returned \subseteq DOMAIN returned'
    BY NoAnswer, <1>1, Zenon DEF RecvEof, Return, Outcome
  <1>3. sent \in Nat
    BY NumberTypes, Zenon DEF IInv
  <1>4. WaitsForLast'
    BY <1>1, <1>2, <1>3 DEF IInv, ClientInv, WaitsForLast
  <1>5. LagIsBounded' /\ AnswersInOrder'
    BY <1>1, <1>2, Zenon DEF IInv, ClientInv, LagIsBounded, AnswersInOrder
  <1>6. LineInv'
    BY <1>1 DEF LineInv, ResponsesAhead, ServingAhead, RequestsAhead, OneLine, Increasing
  <1> QED BY <1>4, <1>5, <1>6, Zenon DEF ClientInv

(* Giving a request up: the line may stay as far away as it is. *)
LEMMA GiveUpStep ==
  ASSUME IInv, waiting # Nobody, waiting' = Nobody, abandoned' = abandoned \cup {waiting.id},
         UNCHANGED <<sent, requests, responses, agent, serving>>,
         \A i \in DOMAIN returned' : returned'[i].answer = 0 \/
              (i \in DOMAIN returned /\ returned'[i] = returned[i]),
         DOMAIN returned \subseteq DOMAIN returned'
  PROVE  ClientInv' /\ LineInv'
  <1> DEFINE C == Cardinality(abandoned)
  <1>1. sent \in Nat /\ C \in Nat /\ Cardinality(abandoned') = C + 1 /\ abandoned' \subseteq 1..sent
    BY NumberTypes, AbandonedFinite, AbandonCounts, Zenon DEF IInv, ClientInv, WaitsForLast
  <1>2. Free = 0 /\ Free' = 1
    BY Zenon DEF Free
  <1>3. C = Cardinality(abandoned)
    BY Zenon
  <1> HIDE DEF C
  <1>4. ASSUME NEW r \in Nat, Ahead(r) PROVE Ahead(r)'
    BY <1>1, <1>2, <1>3, <1>4 DEF Ahead
  <1>5. WaitsForLast'
    BY <1>1 DEF IInv, ClientInv, WaitsForLast
  <1>6. LagIsBounded'
    BY <1>1, <1>3, NumberTypes DEF IInv, ClientInv, LagIsBounded
  <1>7. AnswersInOrder'
    BY Zenon DEF IInv, ClientInv, AnswersInOrder
  <1>8. ResponsesAhead' /\ ServingAhead' /\ RequestsAhead'
    BY <1>4, NumberTypes, Zenon DEF IInv, LineInv, ResponsesAhead, ServingAhead, RequestsAhead
  <1>9. OneLine'
    BY Zenon DEF IInv, LineInv, OneLine, Increasing
  <1> QED BY <1>5, <1>6, <1>7, <1>8, <1>9, Zenon DEF ClientInv, LineInv

LEMMA TimeoutStep ==
  ASSUME IInv, SocketTimeout
  PROVE  ClientInv' /\ LineInv'
  <1>1. waiting # Nobody /\ UNCHANGED <<sent, requests, responses, agent, serving>>
    BY Zenon DEF SocketTimeout, device
  <1>2. CASE reads > 1
    <2>1. UNCHANGED <<waiting, sent, abandoned, returned>>
      BY <1>2, Zenon DEF SocketTimeout
    <2>2. LineInv'
      BY <1>1, <2>1, AheadUnchanged, Zenon DEF IInv, LineInv, ResponsesAhead, ServingAhead, RequestsAhead, OneLine, Increasing

    <2> QED BY <2>1, <2>2, ClientUnchanged, Zenon DEF IInv
  <1>3. CASE ~(reads > 1)
    BY <1>1, <1>3, NoAnswer, GiveUpStep, Zenon DEF SocketTimeout
  <1> QED BY <1>2, <1>3, Zenon

LEMMA InterruptedStep ==
  ASSUME IInv, Interrupted
  PROVE  ClientInv' /\ LineInv'
  BY GiveUpStep, Zenon DEF Interrupted, device

(* Steps of the agent that answer a request at once. *)
LEMMA AnswerStep ==
  ASSUME IInv, UNCHANGED client, NEW ks, Receive(ks), NEW c \in Codes,
         Respond(Head(requests).id, c)
  PROVE  ClientInv' /\ LineInv'
  <1>1. TypeOK /\ LineInv /\ ClientInv
    BY Zenon DEF IInv
  <1>2. LineInv'
    BY <1>1, ReceiveKeepsLine, RespondKeepsLine, Zenon
  <1> QED BY <1>1, <1>2, ClientUnchanged, Zenon DEF client

(* A request goes to the driver, or the session ends. *)
LEMMA ForwardStep ==
  ASSUME IInv, ForwardToDriver
  PROVE  ClientInv' /\ LineInv'
  <1>1. TypeOK /\ LineInv /\ ClientInv /\ UNCHANGED <<waiting, sent, abandoned, returned, responses>>
    BY Zenon DEF IInv, ForwardToDriver, client
  <1>2. ClientInv'
    BY <1>1, ClientUnchanged, Zenon
  <1>3. Receive(NeedsDriver)
    BY Zenon DEF ForwardToDriver
  <1> DEFINE h == Head(requests).id
  <1>4. /\ Ahead(h) /\ agent = "idle"
        /\ \A i \in DOMAIN responses : responses[i].id < h
        /\ Increasing(requests')
        /\ \A i \in DOMAIN requests' : h < requests'[i].id /\ Ahead(requests'[i].id)
        /\ \A i \in DOMAIN responses, j \in DOMAIN requests' :
             responses[i].id < requests'[j].id
    BY <1>1, <1>3, ReceiveKeepsLine, Zenon
  <1>5. \/ agent' \in {"idle", "gone"}
        \/ agent' = "driver" /\ serving'.id = h
    BY Zenon DEF ForwardToDriver
  <1> HIDE DEF h
  <1>6. ResponsesAhead'
    BY <1>1, AheadUnchanged, Zenon DEF LineInv, ResponsesAhead
  <1>7. ServingAhead' /\ RequestsAhead'
    BY <1>1, <1>4, <1>5, AheadUnchanged, Zenon DEF ServingAhead, RequestsAhead
  <1>8. OneLine'
    BY <1>1, <1>4, <1>5, Zenon DEF LineInv, OneLine, Increasing
  <1> QED BY <1>2, <1>6, <1>7, <1>8, Zenon DEF LineInv

(* The driver's answer, or its end, becomes the response. *)
LEMMA DriverAnswerStep ==
  ASSUME IInv, UNCHANGED <<client, requests>>, agent = "driver", NEW c \in Codes,
         Respond(serving.id, c)
  PROVE  ClientInv' /\ LineInv'
  <1>1. TypeOK /\ LineInv /\ ClientInv
    BY Zenon DEF IInv
  <1>2. serving.id \in Nat /\ Ahead(serving.id)
    BY <1>1, NumberTypes, Zenon DEF LineInv, ServingAhead
  <1>3. /\ \A i \in DOMAIN responses : responses[i].id < serving.id
        /\ Increasing(requests')
        /\ \A i \in DOMAIN requests' : serving.id < requests'[i].id /\ Ahead(requests'[i].id)
        /\ \A i \in DOMAIN responses, j \in DOMAIN requests' :
             responses[i].id < requests'[j].id
    BY <1>1, Zenon DEF LineInv, OneLine, RequestsAhead, Increasing
  <1>4. LineInv'
    BY <1>1, <1>2, <1>3, RespondKeepsLine, Zenon
  <1> QED BY <1>1, <1>4, ClientUnchanged, Zenon DEF client

(* Steps outside the line. *)
LEMMA OtherStep ==
  ASSUME IInv, UNCHANGED <<waiting, sent, abandoned, returned, requests, responses, serving>>,
         agent' \in {agent, "gone"}
  PROVE  ClientInv' /\ LineInv'
  <1>1. ClientInv'
    BY ClientUnchanged, Zenon DEF IInv
  <1>2. LineInv'
    BY AheadUnchanged, Zenon DEF IInv, LineInv, ResponsesAhead, ServingAhead, RequestsAhead, OneLine, Increasing

  <1> QED BY <1>1, <1>2, Zenon

(* The invariant is inductive. *)
LEMMA InvStep ==
  ASSUME IInv, [Next]_vars
  PROVE  IInv'
  <1> SUFFICES ClientInv' /\ LineInv'
    BY TypeStep, Zenon DEF IInv
  <1>2. ASSUME NEW k \in Kinds, SendCommand(k) PROVE ClientInv' /\ LineInv'
    BY <1>2, SendStep, Zenon
  <1>3. CASE RecvResponse
    BY <1>3, RecvStep, Zenon
  <1>4. CASE RecvEof
    BY <1>4, EofStep, Zenon
  <1>5. CASE SocketTimeout
    BY <1>5, TimeoutStep, Zenon
  <1>6. CASE Interrupted
    BY <1>6, InterruptedStep, Zenon
  <1>7. CASE Disconnect
    BY <1>7, OtherStep, Zenon DEF Disconnect, device
  <1>8. CASE ProcessLocal
    BY <1>8, AnswerStep, Zenon DEF ProcessLocal, Codes
  <1>9. CASE LaunchDriverService
    <2>1. PICK o \in {"no_driver", "load_fails", "load_crashes", "ok"} :
            Respond(Head(requests).id, IF o = "ok" THEN "SUCCESS" ELSE "FAIL")
      BY <1>9, Zenon DEF LaunchDriverService
    <2> QED BY <1>9, <2>1, AnswerStep, Zenon DEF LaunchDriverService, Codes
  <1>10. CASE ForwardToDriver
    BY <1>10, ForwardStep, Zenon
  <1>11. CASE ReplyFromDriver
    BY <1>11, DriverAnswerStep, Zenon DEF ReplyFromDriver, Codes
  <1>12. CASE DriverEof
    BY <1>12, DriverAnswerStep, Zenon DEF DriverEof, Codes
  <1>13. CASE AgentEof
    BY <1>13, OtherStep, Zenon DEF AgentEof, client
  <1>14. CASE DriverServes
    BY <1>14, OtherStep, Zenon DEF DriverServes, client
  <1>15. CASE DriverReadsEof
    BY <1>15, OtherStep, Zenon DEF DriverReadsEof, client
  <1>16. CASE DriverCrash
    BY <1>16, OtherStep, Zenon DEF DriverCrash, client
  <1>17. CASE UNCHANGED vars
    BY <1>17, OtherStep, Zenon DEF vars, client, device
  <1> QED
    BY <1>2, <1>3, <1>4, <1>5, <1>6, <1>7, <1>8, <1>9, <1>10, <1>11, <1>12, <1>13, <1>14,
       <1>15, <1>16, <1>17, Zenon DEF Next, AgentStep, DriverStep

(* The invariant holds when the session starts. *)
LEMMA InvInit == Init => IInv
  <1> SUFFICES ASSUME Init PROVE IInv
    BY Zenon
  <1>1. TypeOK
    <2>1. Nobody \in Requests
      BY RecordTypes, Zenon
    <2>2. <<>> \in Seq(Requests) /\ <<>> \in Seq(Responses) /\ <<>> \in Seq(Results)
          /\ <<>> \in Seq(Returns)
      OBVIOUS
    <2>3. 0 \in 0..MaxRequests /\ 0 \in 0..3
      BY ConstantsAssumption
    <2>4. ClientType
      BY <2>1, <2>2, <2>3, Zenon DEF Init, ClientType
    <2>5. PipeType /\ DeviceType
      BY <2>1, <2>2, Zenon DEF Init, PipeType, DeviceType
    <2> QED BY <2>4, <2>5, Zenon DEF TypeOK
  <1>2. ClientInv /\ LineInv
    BY DEF Init, ClientInv, WaitsForLast, LagIsBounded, AnswersInOrder, LineInv, ResponsesAhead,
           ServingAhead, RequestsAhead, OneLine, Increasing
  <1> QED BY <1>1, <1>2, Zenon DEF IInv

(* The inductive invariant holds in every state of a session. *)
THEOREM LineOfRequests == Spec => []IInv
  BY InvInit, InvStep, PTL DEF Spec

(* The types of the session's state. *)
THEOREM TypeCorrect == Spec => []TypeOK
  <1>1. IInv => TypeOK
    BY Zenon DEF IInv
  <1> QED BY <1>1, LineOfRequests, PTL

(* RecvResponse returns the response to the client's request or to one of  *)
(* as many earlier ones as the client gave up, never to a later one.       *)
THEOREM LateByAbandoned == Spec => []LagIsBounded
  <1>1. IInv => LagIsBounded
    BY Zenon DEF IInv, ClientInv
  <1> QED BY <1>1, LineOfRequests, PTL

(* RecvResponse returns no response twice and none out of order. *)
THEOREM AnswersOnceInOrder == Spec => []AnswersInOrder
  <1>1. IInv => AnswersInOrder
    BY Zenon DEF IInv, ClientInv
  <1> QED BY <1>1, LineOfRequests, PTL

(* What RecvResponse returns is due: in order, once, and late by at most   *)
(* what the client gave up, for every number of requests and faults.       *)
THEOREM ResponsesAreDue == Spec => []AnswersAreDue
  BY LateByAbandoned, AnswersOnceInOrder, PTL DEF AnswersAreDue
-----------------------------------------------------------------------------
(* The agent and the driver exchange one command and one result at a time: *)
(* nothing is left over for the next request, unless the driver is gone.   *)
Exchange ==
  /\ agent = "idle" => results = <<>> /\ (commands = <<>> \/ driver = "gone")
  /\ agent = "driver" =>
       \/ results = <<>> /\ commands = <<serving>>
       \/ /\ commands = <<>> /\ results # <<>> /\ Tail(results) = <<>>
          /\ serving.id \in served

(* A request on its way that has the number the client waits for is the    *)
(* one that the client sent.                                               *)
SameKind ==
  agent # "gone" /\ waiting # Nobody =>
    \A i \in DOMAIN requests : requests[i].id = waiting.id => requests[i].kind = waiting.kind

(* A success on its way to a client that needs the driver was served. *)
ResponsesServed ==
  waiting # Nobody /\ waiting.kind \in NeedsDriver =>
    \A i \in DOMAIN responses :
      responses[i].id = waiting.id /\ responses[i].code = "SUCCESS" => waiting.id \in served

ServedInv == Exchange /\ SameKind /\ ResponsesServed /\ SuccessWasServed

LEMMA SingleFacts ==
  \A e : /\ Append(<<>>, e) = <<e>> /\ <<e>> # <<>>
         /\ Head(<<e>>) = e /\ Tail(<<e>>) = <<>>
  OBVIOUS

(* A step of the client leaves the exchange with the driver alone. *)
LEMMA ClientStep ==
  (\E k \in Kinds : SendCommand(k)) \/ RecvResponse \/ RecvEof \/ SocketTimeout \/ Interrupted
    \/ Disconnect => UNCHANGED device
  BY Zenon DEF SendCommand, RecvResponse, RecvEof, SocketTimeout, Interrupted, Disconnect

LEMMA ExchangeStep ==
  ASSUME IInv, Exchange, [Next]_vars
  PROVE  Exchange'
  <1>1. CASE UNCHANGED device
    BY <1>1, Zenon DEF device, Exchange
  <1>2. CASE ProcessLocal
    BY <1>2, Zenon DEF ProcessLocal, Receive, Respond, Exchange
  <1>3. CASE LaunchDriverService
    <2>1. agent = "idle" /\ agent' \in {"idle", "gone"}
      BY <1>3, Zenon DEF LaunchDriverService, Receive, Respond
    <2>2. \/ commands' = commands /\ results' = results /\ driver' = driver
          \/ commands' = <<>> /\ results' = <<>>
      BY <1>3, Zenon DEF LaunchDriverService
    <2> QED BY <2>1, <2>2 DEF Exchange
  <1>4. CASE ForwardToDriver
    <2>1. agent = "idle" /\ results' = results /\ driver' = driver
      BY <1>4, Zenon DEF ForwardToDriver, Receive
    <2>2. CASE agent' # "driver"
      BY <1>4, <2>1, <2>2, Zenon DEF ForwardToDriver, Exchange
    <2>3. CASE agent' = "driver"
      <3>1. /\ driver # "gone" /\ serving' = Head(requests)
            /\ commands' = Append(commands, Head(requests))
        BY <1>4, <2>1, <2>3 DEF ForwardToDriver
      <3> QED BY <2>1, <2>3, <3>1, SingleFacts, Zenon DEF Exchange
    <2> QED BY <2>2, <2>3, Zenon
  <1>5. CASE ReplyFromDriver
    <2>1. /\ agent = "driver" /\ results # <<>> /\ results' = Tail(results)
          /\ UNCHANGED <<commands, driver>> /\ agent' \in {"idle", "gone"}
      BY <1>5, Zenon DEF ReplyFromDriver, Respond
    <2> QED BY <2>1 DEF Exchange
  <1>6. CASE DriverEof
    BY <1>6 DEF DriverEof, Respond, Exchange
  <1>7. CASE AgentEof
    BY <1>7 DEF AgentEof, Exchange
  <1>8. CASE DriverServes
    <2>1. /\ driver = "idle" /\ commands # <<>> /\ commands' = Tail(commands)
          /\ served' = served \cup {Head(commands).id} /\ UNCHANGED <<agent, serving, driver>>
      BY <1>8, Zenon DEF DriverServes
    <2>2. PICK r : results' = Append(results, r)
      BY <1>8, Zenon DEF DriverServes
    <2>3. agent # "idle"
      BY <2>1 DEF Exchange
    <2>4. CASE agent = "driver"
      <3>1. results = <<>> /\ commands = <<serving>>
        BY <2>1, <2>4, Zenon DEF Exchange
      <3>2. commands' = <<>> /\ results' # <<>> /\ Tail(results') = <<>> /\ serving.id \in served'
        BY <2>1, <2>2, <3>1, SingleFacts, Zenon
      <3> QED BY <2>1, <2>4, <3>2 DEF Exchange
    <2> QED BY <2>1, <2>3, <2>4, Zenon DEF Exchange
  <1>9. CASE DriverReadsEof
    BY <1>9 DEF DriverReadsEof, Exchange
  <1>10. CASE DriverCrash
    BY <1>10, Zenon DEF DriverCrash, Exchange
  <1> QED
    BY <1>1, <1>2, <1>3, <1>4, <1>5, <1>6, <1>7, <1>8, <1>9, <1>10, ClientStep, Zenon
       DEF Next, AgentStep, DriverStep, vars, device

(* Requests keep their kind on the way, and a new one has a new number. *)
LEMMA SameKindStep ==
  ASSUME IInv, SameKind, [Next]_vars
  PROVE  SameKind'
  <1>1. ASSUME NEW k \in Kinds, SendCommand(k) PROVE SameKind'
    <2>1. /\ requests' = Append(requests, waiting') /\ waiting'.id = sent + 1 /\ agent' = agent
          /\ sent \in Nat /\ requests \in Seq(Requests) /\ waiting' \in Requests
      BY <1>1, TypeStep, NumberTypes, Zenon
         DEF SendCommand, IInv, TypeOK, ClientType, PipeType, device, Next
    <2>2. /\ DOMAIN requests' = DOMAIN requests \cup {Len(requests) + 1}
          /\ requests'[Len(requests) + 1] = waiting'
          /\ \A i \in DOMAIN requests : requests'[i] = requests[i]
      BY <2>1, AppendFacts
    <2>3. agent # "gone" => \A i \in DOMAIN requests : requests[i].id # sent + 1
      BY <2>1, NumberTypes DEF IInv, LineInv, RequestsAhead, Ahead
    <2> QED BY <2>1, <2>2, <2>3, Zenon DEF SameKind
  <1>2. CASE waiting' = Nobody
    BY <1>2, Zenon DEF SameKind
  <1>3. ASSUME NEW ks, Receive(ks), agent # "gone", UNCHANGED waiting PROVE SameKind'
    <2>1. requests # <<>> /\ requests' = Tail(requests) /\ requests \in Seq(Requests)
      BY <1>3, Zenon DEF Receive, IInv, TypeOK, PipeType
    <2>2. \A i \in DOMAIN requests' : i + 1 \in DOMAIN requests /\ requests'[i] = requests[i + 1]
      BY <2>1, TailFacts, Zenon
    <2> QED BY <1>3, <2>2, Zenon DEF SameKind
  <1>4. CASE UNCHANGED <<waiting, requests>> /\ (agent' # "gone" => agent # "gone")
    BY <1>4, Zenon DEF SameKind
  <1>5. RecvResponse \/ RecvEof \/ Interrupted \/ SocketTimeout =>
          waiting' = Nobody \/ (UNCHANGED <<waiting, requests>> /\ (agent' # "gone" => agent # "gone"))
    BY Zenon DEF RecvResponse, RecvEof, Return, Interrupted, SocketTimeout, device
  <1>6. ProcessLocal \/ LaunchDriverService \/ ForwardToDriver =>
          agent # "gone" /\ UNCHANGED waiting /\ \E ks : Receive(ks)
    BY DEF ProcessLocal, LaunchDriverService, ForwardToDriver, Receive, client
  <1>7. Disconnect \/ ReplyFromDriver \/ DriverEof \/ AgentEof \/ DriverStep \/ DriverCrash
          \/ UNCHANGED vars => UNCHANGED <<waiting, requests>> /\ (agent' # "gone" => agent # "gone")
    BY DEF Disconnect, ReplyFromDriver, DriverEof, AgentEof, DriverStep, DriverServes,
           DriverReadsEof, DriverCrash, vars, client, device
  <1> QED
    BY <1>1, <1>2, <1>3, <1>4, <1>5, <1>6, <1>7, Zenon DEF Next, AgentStep

(* A response keeps ResponsesServed unless it is a success that the client *)
(* waits for and the driver did not make.                                  *)
LEMMA RespondServed ==
  ASSUME IInv, ResponsesServed, UNCHANGED <<waiting, served>>,
         NEW n \in Nat, NEW c \in Codes, Respond(n, c),
         waiting # Nobody /\ waiting.kind \in NeedsDriver /\ n = waiting.id /\ c = "SUCCESS"
           => n \in served
  PROVE  ResponsesServed'
  <1> DEFINE e == [id |-> n, code |-> c]
  <1>1. e \in Responses /\ e.id = n /\ e.code = c /\ responses \in Seq(Responses)
    BY RecordTypes, Zenon DEF IInv, TypeOK, PipeType
  <1>2. responses' = responses \/ responses' = Append(responses, e)
    BY Zenon DEF Respond
  <1> HIDE DEF e
  <1>3. \A i \in DOMAIN responses' :
          responses'[i] = e \/ (i \in DOMAIN responses /\ responses'[i] = responses[i])
    BY <1>1, <1>2, AppendFacts
  <1> QED BY <1>1, <1>3, Zenon DEF ResponsesServed

(* The agent answers a local request or a launch without the driver: it is *)
(* not the request of a client that needs the driver.                      *)
LEMMA OwnAnswerServed ==
  ASSUME IInv, SameKind, ResponsesServed, UNCHANGED <<waiting, served>>,
         NEW k \in {"local", "launch"}, Receive({k}), NEW c \in Codes, Respond(Head(requests).id, c)
  PROVE  ResponsesServed'
  <1>1. /\ agent = "idle" /\ requests # <<>> /\ Head(requests).kind = k
        /\ requests \in Seq(Requests)
    BY Zenon DEF Receive, IInv, TypeOK, PipeType
  <1>2. Head(requests) = requests[1] /\ 1 \in DOMAIN requests
    BY <1>1, TailFacts, Zenon
  <1>3. Head(requests).id \in Nat
    BY <1>2, NumberTypes, Zenon DEF IInv
  <1>4. waiting # Nobody /\ Head(requests).id = waiting.id => waiting.kind = k
    BY <1>1, <1>2 DEF SameKind
  <1>5. k \notin NeedsDriver
    BY DEF NeedsDriver, HalKinds
  <1> QED BY <1>3, <1>4, <1>5, RespondServed, Zenon

LEMMA ResponsesServedStep ==
  ASSUME IInv, Exchange, SameKind, ResponsesServed, [Next]_vars
  PROVE  ResponsesServed'
  <1>1. ASSUME NEW k \in Kinds, SendCommand(k) PROVE ResponsesServed'
    <2>1. waiting'.id = sent + 1 /\ responses' = responses /\ sent \in Nat
      BY <1>1, NumberTypes, Zenon DEF SendCommand, IInv
    <2>2. \A i \in DOMAIN responses : responses[i].id # sent + 1
      BY <2>1, NumberTypes DEF IInv, LineInv, ResponsesAhead, Ahead
    <2> QED BY <2>1, <2>2, Zenon DEF ResponsesServed
  <1>2. CASE waiting' = Nobody
    BY <1>2, Zenon DEF ResponsesServed
  <1>3. CASE UNCHANGED <<waiting, responses>> /\ served \subseteq served'
    BY <1>3, Zenon DEF ResponsesServed
  <1>4. CASE ProcessLocal
    BY <1>4, OwnAnswerServed, Zenon DEF ProcessLocal, client, Codes
  <1>5. CASE LaunchDriverService
    <2>1. PICK o \in {"no_driver", "load_fails", "load_crashes", "ok"} :
            Respond(Head(requests).id, IF o = "ok" THEN "SUCCESS" ELSE "FAIL")
      BY <1>5, Zenon DEF LaunchDriverService
    <2> QED BY <1>5, <2>1, OwnAnswerServed, Zenon DEF LaunchDriverService, client, Codes
  <1>6. CASE ReplyFromDriver
    <2>1. serving.id \in served
      BY <1>6, Zenon DEF ReplyFromDriver, Exchange
    <2>2. serving.id \in Nat /\ UNCHANGED <<waiting, served>>
      BY <1>6, NumberTypes, Zenon DEF ReplyFromDriver, IInv, client
    <2> QED BY <1>6, <2>1, <2>2, RespondServed, Zenon DEF ReplyFromDriver, Codes
  <1>7. CASE DriverEof
    <2>1. serving.id \in Nat /\ UNCHANGED <<waiting, served>>
      BY <1>7, NumberTypes, Zenon DEF DriverEof, IInv, client
    <2>2. "FAIL" \in Codes /\ "FAIL" # "SUCCESS"
      BY DEF Codes
    <2> QED BY <1>7, <2>1, <2>2, RespondServed, Zenon DEF DriverEof
  <1>8. RecvResponse \/ RecvEof \/ Interrupted \/ SocketTimeout =>
          waiting' = Nobody \/ (UNCHANGED <<waiting, responses>> /\ served \subseteq served')
    BY ZenonT(40) DEF RecvResponse, RecvEof, Return, Interrupted, SocketTimeout, device
  <1>9. Disconnect \/ ForwardToDriver \/ AgentEof \/ DriverStep \/ DriverCrash \/ UNCHANGED vars
          => UNCHANGED <<waiting, responses>> /\ served \subseteq served'
    BY DEF Disconnect, ForwardToDriver, AgentEof, DriverStep, DriverServes, DriverReadsEof,
           DriverCrash, vars, client, device
  <1> QED
    BY <1>1, <1>2, <1>3, <1>4, <1>5, <1>6, <1>7, <1>8, <1>9, Zenon DEF Next, AgentStep

(* What a call returns was served when it is the client's own success. *)
LEMMA SuccessServedStep ==
  ASSUME IInv, ResponsesServed, SuccessWasServed, [Next]_vars
  PROVE  SuccessWasServed'
  <1>1. served \subseteq served'
    BY DEF Next, AgentStep, DriverStep, SendCommand, RecvResponse, RecvEof, SocketTimeout,
           Interrupted, Disconnect, ProcessLocal, LaunchDriverService, ForwardToDriver,
           ReplyFromDriver, DriverEof, AgentEof, DriverServes, DriverReadsEof, DriverCrash,
           vars, device
  <1>2. CASE returned' = returned
    BY <1>1, <1>2, Zenon DEF SuccessWasServed
  <1>3. ASSUME NEW e \in Returns, returned' = Append(returned, e),
               e.kind \in NeedsDriver /\ e.outcome = "ok" /\ e.answer = e.id => e.answer \in served
        PROVE  SuccessWasServed'
    <2>1. returned \in Seq(Returns)
      BY Zenon DEF IInv, TypeOK, ClientType
    <2>2. \A i \in DOMAIN returned' :
            returned'[i] = e \/ (i \in DOMAIN returned /\ returned'[i] = returned[i])
      BY <1>3, <2>1, AppendFacts
    <2> QED BY <1>1, <1>3, <2>2, Zenon DEF SuccessWasServed
  <1>4. CASE RecvResponse
    <2> DEFINE h == Head(responses)
               e == [id |-> waiting.id, kind |-> waiting.kind, answer |-> h.id,
                     outcome |-> Outcome(waiting.kind, h.code)]
    <2>1. responses # <<>> /\ responses \in Seq(Responses) /\ waiting # Nobody /\ waiting \in Requests
      BY <1>4, Zenon DEF RecvResponse, IInv, TypeOK, PipeType, ClientType
    <2>2. h = responses[1] /\ 1 \in DOMAIN responses /\ h.id \in Nat
      BY <2>1, TailFacts, NumberTypes, ZenonT(40) DEF IInv
    <2>3. Outcome(waiting.kind, h.code) \in {"ok", "failed", "unchecked"}
      BY Zenon DEF Outcome
    <2>4. e \in Returns
      BY <2>1, <2>2, <2>3, ReturnTypes, Zenon
    <2>5. returned' = Append(returned, e)
      BY <1>4, Zenon DEF RecvResponse, Return
    <2>6. Outcome(waiting.kind, h.code) = "ok" => h.code = "SUCCESS"
      BY DEF Outcome
    <2>7. waiting.kind \in NeedsDriver /\ h.code = "SUCCESS" /\ h.id = waiting.id => h.id \in served
      BY <2>1, <2>2, Zenon DEF ResponsesServed
    <2>8. e.kind = waiting.kind /\ e.answer = h.id /\ e.id = waiting.id
          /\ e.outcome = Outcome(waiting.kind, h.code)
      BY Zenon
    <2> HIDE DEF e, h
    <2> QED BY <1>3, <2>4, <2>5, <2>6, <2>7, <2>8, Zenon
  <1>5. ASSUME NEW o \in {"failed", "unchecked"},
               returned' = Append(returned, [id |-> waiting.id, kind |-> waiting.kind,
                                             answer |-> 0, outcome |-> o])
        PROVE  SuccessWasServed'
    <2> DEFINE e == [id |-> waiting.id, kind |-> waiting.kind, answer |-> 0, outcome |-> o]
    <2>1. e \in Returns
      BY ReturnTypes, Zenon DEF IInv, TypeOK, ClientType
    <2>2. e.outcome # "ok"
      OBVIOUS
    <2>3. returned' = Append(returned, e)
      BY <1>5, Zenon
    <2> HIDE DEF e
    <2> QED BY <1>3, <2>1, <2>2, <2>3, Zenon
  <1>6. CASE RecvEof
    <2>1. Outcome(waiting.kind, "UNKNOWN") \in {"failed", "unchecked"}
      BY DEF Outcome
    <2> QED BY <1>5, <1>6, <2>1, Zenon DEF RecvEof, Return
  <1>7. CASE SocketTimeout
    BY <1>2, <1>5, <1>7, Zenon DEF SocketTimeout
  <1>8. ~(RecvResponse \/ RecvEof \/ SocketTimeout) => returned' = returned
    BY Zenon DEF Next, AgentStep, DriverStep, SendCommand, Interrupted, Disconnect, ProcessLocal,
          LaunchDriverService, ForwardToDriver, ReplyFromDriver, DriverEof, AgentEof, DriverServes,
          DriverReadsEof, DriverCrash, vars, client
  <1> QED
    BY <1>2, <1>4, <1>6, <1>7, <1>8, ZenonT(40)

(* A crash of the driver is never taken for success: whatever faults occur *)
(* in however long a session, a call that reports success after reading    *)
(* its own answer read one that ProcessOneCommand of the driver made.      *)
THEOREM SuccessIsServed == Spec => []SuccessWasServed
  <1>1. Init => ServedInv
    BY DEF Init, ServedInv, Exchange, SameKind, ResponsesServed, SuccessWasServed
  <1>2. IInv /\ ServedInv /\ [Next]_vars => ServedInv'
    BY ExchangeStep, SameKindStep, ResponsesServedStep, SuccessServedStep, Zenon DEF ServedInv
  <1>3. ServedInv => SuccessWasServed
    BY Zenon DEF ServedInv
  <1> QED BY <1>1, <1>2, <1>3, LineOfRequests, PTL DEF Spec
-----------------------------------------------------------------------------
(* The resources of a session.                                            *)
(* An id is the size that the map had: the ids are an initial segment of   *)
(* the natural numbers.                                                    *)
IsMap(map) == \E n \in Nat : map = [i \in 0..(n - 1) |-> map[i]]

MirrorKinds == {"fmq", "memory", "handle"}
MirrorTypes == Types \cup {"none"}
MirrorRecords == [kind : MirrorKinds, id : Nat, type : MirrorTypes, sync : BOOLEAN, obj : Nat,
                  cleaned : BOOLEAN]

ManagerTypeOK ==
  /\ IsMap(fmq_map_) /\ IsMap(hidl_memory_map_) /\ IsMap(hidl_handle_map_)
  /\ \A i \in DOMAIN fmq_map_ : fmq_map_[i].obj \in Nat \ {0}
  /\ \A i \in DOMAIN hidl_handle_map_ :
       hidl_handle_map_[i] = Released \/ hidl_handle_map_[i] \in [fd : Nat, obj : Nat]
  /\ open_fds \in SUBSET Nat /\ IsFiniteSet(open_fds)
  /\ objects \in Nat /\ mirrors \in SUBSET MirrorRecords

(* The open descriptors are those of the handles that are not released.    *)
FdsInv ==
  /\ \A i \in DOMAIN hidl_handle_map_ :
       hidl_handle_map_[i] # Released => hidl_handle_map_[i].fd \in open_fds
  /\ \A fd \in open_fds : \E i \in DOMAIN hidl_handle_map_ : hidl_handle_map_[i].fd = fd
  /\ \A i, j \in DOMAIN hidl_handle_map_ :
       /\ hidl_handle_map_[i] # Released /\ hidl_handle_map_[j] # Released
       /\ hidl_handle_map_[i].fd = hidl_handle_map_[j].fd
       => i = j

(* No request was answered with an id that the driver left unset.          *)
IdsWereSet == used \cap {"struct_result", "other_type", "exclusive_mode"} = {}

(* A mirror names its object, and no two mirrors have the id of the same   *)
(* handle.                                                                 *)
MirrorsInv ==
  IdsWereSet => \A r \in mirrors :
    /\ NamesItsObject(r)
    /\ \A x \in mirrors : r.kind = "handle" /\ x.kind = "handle" /\ x.id = r.id => x = r

ManagerInv == ManagerTypeOK /\ FdsInv /\ MirrorsInv /\ SessionServes
-----------------------------------------------------------------------------
(* What emplace with the id map.size() does: the id is new, and the other  *)
(* entries stay.                                                           *)
Keeps(map, map2) ==
  /\ IsMap(map2)
  /\ DOMAIN map \subseteq DOMAIN map2 /\ \A i \in DOMAIN map : map2[i] = map[i]

Grows(map, map2, id, x) ==
  /\ Keeps(map, map2)
  /\ id \in Nat /\ id \notin DOMAIN map
  /\ DOMAIN map2 = DOMAIN map \cup {id} /\ map2[id] = x

(* The size of a map whose ids are 0 to n-1 is n, so an id is never handed *)
(* out twice and emplace never finds it taken.                             *)
LEMMA EmplaceGrows ==
  ASSUME NEW map, NEW x, IsMap(map)
  PROVE  Grows(map, Emplace(map, x), NewId(map), x)
<1>1. PICK n \in Nat : map = [i \in 0..(n - 1) |-> map[i]]
  BY Zenon DEF IsMap
<1>2. DOMAIN map = 0..(n - 1)
  BY <1>1, Zenon
<1>3. NewId(map) = n
  <2>1. Cardinality(0..(n - 1)) = IF 0 > n - 1 THEN 0 ELSE (n - 1) - 0 + 1
    BY FS_Interval
  <2> QED BY <1>2, <2>1 DEF NewId
<1>4. DOMAIN map \cup {n} = 0..((n + 1) - 1) /\ n \notin DOMAIN map
  BY <1>2
<1>5. Emplace(map, x) = [i \in 0..((n + 1) - 1) |-> IF i \in DOMAIN map THEN map[i] ELSE x]
  BY <1>3, <1>4, Zenon DEF Emplace
<1>6. IsMap(Emplace(map, x))
  <2>1. Emplace(map, x) = [i \in 0..((n + 1) - 1) |-> Emplace(map, x)[i]]
    BY <1>5, Zenon
  <2>2. n + 1 \in Nat
    OBVIOUS
  <2> QED BY <2>1, <2>2, Zenon DEF IsMap
<1> QED BY <1>3, <1>4, <1>5, <1>6, Zenon DEF Grows, Keeps

LEMMA MapStays ==
  ASSUME NEW map, IsMap(map)
  PROVE  Keeps(map, map)
BY Zenon DEF Keeps

(* open(2) finds a descriptor: among Cardinality(S) + 1 numbers one is not *)
(* in S, and there is a least one.                                         *)
LEMMA FreeFdIsFree ==
  ASSUME open_fds \in SUBSET Nat, IsFiniteSet(open_fds)
  PROVE  FreeFd \in Nat /\ FreeFd \notin open_fds
<1> DEFINE c == Cardinality(open_fds)
           T == {k \in Nat : k \notin open_fds}
<1>1. c \in Nat
  BY FS_CardinalityType
<1>2. PICK k \in 0..c : k \notin open_fds
  <2> SUFFICES ASSUME 0..c \subseteq open_fds PROVE FALSE
    OBVIOUS
  <2>1. Cardinality(0..c) <= c
    BY FS_Subset
  <2>2. Cardinality(0..c) = c + 1
    <3> HIDE DEF c
    <3> QED BY <1>1, FS_Interval
  <2> QED BY <1>1, <2>1, <2>2
<1>3. PICK m \in T : \A j \in T : ~ (<<j, m>> \in OpToRel(<, Nat))
  <2>1. T \subseteq Nat /\ T # {}
    BY <1>1, <1>2
  <2> HIDE DEF T
  <2> QED BY <2>1, NatLessThanWellFounded, WFMin, Zenon
<1>4. \A j \in T : ~ (j < m)
  BY <1>3 DEF OpToRel
<1>5. m \in 0..c /\ m \notin open_fds /\ \A g \in 0..(m - 1) : g \in open_fds
  <2>1. m \in Nat /\ m \notin open_fds /\ k \in T
    BY <1>1, <1>2
  <2>2. ~ (k < m) /\ m \in 0..c
    <3>1. ~ (k < m)
      BY <1>4, <2>1, Zenon
    <3> HIDE DEF c, T
    <3> QED BY <1>1, <2>1, <3>1
  <2>3. ASSUME NEW g \in 0..(m - 1) PROVE g \in open_fds
    <3>1. g \in Nat /\ g < m
      BY <2>1
    <3> QED BY <1>4, <3>1, Zenon
  <2> QED BY <2>1, <2>2, <2>3, Zenon
<1>6. FreeFd \in 0..c /\ FreeFd \notin open_fds
  <2> HIDE DEF T
  <2> QED BY <1>5, Zenon DEF FreeFd
<1> QED BY <1>1, <1>6
-----------------------------------------------------------------------------
(* A mirror keeps naming its object while the maps only grow.              *)
LEMMA MirrorKept ==
  ASSUME NEW r, NamesItsObject(r),
         Keeps(fmq_map_, fmq_map_'), Keeps(hidl_memory_map_, hidl_memory_map_'),
         Keeps(hidl_handle_map_, hidl_handle_map_')
  PROVE  NamesItsObject(r)'
BY Zenon DEF NamesItsObject, Keeps

(* What a request does that answers with a mirror for a new entry.         *)
LEMMA MirrorAdded ==
  ASSUME MirrorsInv, IdsWereSet' => IdsWereSet, NEW x, mirrors' = mirrors \cup {x},
         Keeps(fmq_map_, fmq_map_'), Keeps(hidl_memory_map_, hidl_memory_map_'),
         Keeps(hidl_handle_map_, hidl_handle_map_'),
         IdsWereSet' => NamesItsObject(x)',
         x.kind = "handle" => x.id \notin DOMAIN hidl_handle_map_
  PROVE  MirrorsInv'
<1> SUFFICES ASSUME IdsWereSet' PROVE (\A r \in mirrors :
                /\ NamesItsObject(r)
                            /\ \A y \in mirrors :
                     r.kind = "handle" /\ y.kind = "handle" /\ y.id = r.id => y = r)'
  BY Zenon DEF MirrorsInv
<1>1. \A r \in mirrors :
        /\ NamesItsObject(r)
            /\ \A y \in mirrors : r.kind = "handle" /\ y.kind = "handle" /\ y.id = r.id => y = r
  BY Zenon DEF MirrorsInv
<1>2. \A r \in mirrors : r.kind = "handle" => r.id \in DOMAIN hidl_handle_map_
  <2> SUFFICES ASSUME NEW r \in mirrors, r.kind = "handle"
               PROVE  r.id \in DOMAIN hidl_handle_map_
    BY Zenon
  <2>1. NamesItsObject(r)
    BY <1>1, Zenon
  <2>2. "handle" # "fmq" /\ "handle" # "memory"
    OBVIOUS
  <2> QED BY <2>1, <2>2, Zenon DEF NamesItsObject
<1>3. \A r \in mirrors : NamesItsObject(r)'
  BY <1>1, MirrorKept, Zenon
<1>4. \A r, y \in mirrors' : r.kind = "handle" /\ y.kind = "handle" /\ y.id = r.id => y = r
  BY <1>1, <1>2, Zenon
<1> QED BY <1>1, <1>3, <1>4, Zenon

(* A step that leaves the entries and the mirrors alone. *)
LEMMA MirrorsStay ==
  ASSUME MirrorsInv, IdsWereSet' => IdsWereSet,
         UNCHANGED <<fmq_map_, hidl_memory_map_, hidl_handle_map_, mirrors>>
  PROVE  MirrorsInv'
BY Zenon DEF MirrorsInv, NamesItsObject

LEMMA FdsStay ==
  ASSUME FdsInv, UNCHANGED handles
  PROVE  FdsInv'
BY Zenon DEF FdsInv, handles

(* What was used stays used. *)
LEMMA UsedGrows ==
  ASSUME NEW cond, NEW u, UseIf(cond, u)
  PROVE  /\ used' = {} => used = {} /\ ~ cond
         /\ IdsWereSet' => IdsWereSet
         /\ u \in {"struct_result", "other_type", "exclusive_mode"} /\ cond => ~ IdsWereSet'
<1>1. CASE cond
  <2>1. used' = used \cup {u}
    BY <1>1, Zenon DEF UseIf, Use
  <2> QED BY <1>1, <2>1 DEF IdsWereSet
<1>2. CASE ~ cond
  BY <1>2, Zenon DEF UseIf, IdsWereSet
<1> QED BY <1>1, <1>2, Zenon

(* The records that the host keeps. *)
IsMirror(x, kind, id, type, sync, obj) ==
  /\ x \in MirrorRecords /\ x.kind = kind /\ x.id = id
  /\ x.type = type /\ x.sync = sync /\ x.obj = obj /\ x.cleaned = FALSE

LEMMA MirrorTyped ==
  ASSUME NEW kind \in MirrorKinds, NEW id \in Nat, NEW type \in MirrorTypes, NEW sync \in BOOLEAN,
         NEW obj \in Nat
  PROVE  IsMirror(Mirror(kind, id, type, sync, obj), kind, id, type, sync, obj)
BY DEF IsMirror, Mirror, MirrorRecords

(* While the tests keep to the common calls, a queue's mirror finds its    *)
(* queue.                                                                  *)
LEMMA QueueIsFound ==
  ASSUME MirrorsInv, ManagerTypeOK, IdsWereSet, NEW r \in Of("fmq")
  PROVE  FindQueue(r.type, r.sync, r.id) # NoQueue
<1>1. r \in mirrors /\ r.kind = "fmq" /\ "fmq" # "memory" /\ "fmq" # "handle"
  BY DEF Of
<1>2. r.id \in DOMAIN fmq_map_
      /\ fmq_map_[r.id] = [type |-> r.type, sync |-> r.sync, obj |-> r.obj]
  <2>1. NamesItsObject(r)
    BY <1>1, Zenon DEF MirrorsInv
  <2> QED BY <1>1, <2>1, Zenon DEF NamesItsObject
<1>3. FindQueue(r.type, r.sync, r.id) = fmq_map_[r.id]
  <2>1. \A q, t, s, o : q = [type |-> t, sync |-> s, obj |-> o] => q.type = t /\ q.sync = s
    OBVIOUS
  <2>2. fmq_map_[r.id].type = r.type /\ fmq_map_[r.id].sync = r.sync
    BY <1>2, <2>1, ZenonT(40)
  <2> QED BY <2>2, <1>2, Zenon DEF FindQueue
<1>4. fmq_map_[r.id].obj # 0
  BY <1>2, Zenon DEF ManagerTypeOK
<1>5. NoQueue.obj = 0
  BY DEF NoQueue
<1> QED BY <1>3, <1>4, <1>5, Zenon

(* What FindQueue finds has a ring. *)
LEMMA FoundHasRing ==
  ASSUME ManagerTypeOK, NEW type, NEW sync, NEW id, FindQueue(type, sync, id) # NoQueue
  PROVE  FindQueue(type, sync, id).obj \in Nat \ {0}
BY Zenon DEF ManagerTypeOK, FindQueue
-----------------------------------------------------------------------------
(* Inserting a queue: under a held lock nothing is inserted; otherwise the *)
(* new mirror names the new entry.                                         *)
LEMMA InsertStep ==
  ASSUME ManagerInv, NEW type \in Types, NEW sync \in BOOLEAN, NEW obj \in Nat \ {0},
         InsertQueue(type, sync, obj), UNCHANGED <<memories, handles>>,
         objects' \in Nat, used' = {} => used = {}, IdsWereSet' => IdsWereSet
  PROVE  ManagerInv'
<1> USE DEF ManagerInv
<1> DEFINE q == [type |-> type, sync |-> sync, obj |-> obj]
<1>1. /\ hidl_memory_map_' = hidl_memory_map_
      /\ hidl_handle_map_' = hidl_handle_map_ /\ open_fds' = open_fds
  BY Zenon DEF memories, handles
<1>2. FdsInv'
  BY FdsStay, Zenon
<1>3. CASE fmq_mutex_held
  <2>1. /\ fmq_map_' = fmq_map_ /\ mirrors' = mirrors
        /\ fmq_mutex_held' = fmq_mutex_held /\ used' # {}
    BY <1>3, Zenon DEF InsertQueue, SessionServes
  <2>2. ManagerTypeOK'
    BY <1>1, <2>1, Zenon DEF ManagerTypeOK
  <2>3. MirrorsInv'
    BY <1>1, <2>1, MirrorsStay, Zenon
  <2> QED BY <1>2, <2>1, <2>2, <2>3, Zenon DEF SessionServes
<1>4. CASE ~ fmq_mutex_held
  <2>1. PICK id : id = NewId(fmq_map_)
    BY Zenon
  <2>2. PICK x : x = Mirror("fmq", id, type, sync, obj)
    BY Zenon
  <2>3. /\ fmq_map_' = Emplace(fmq_map_, q) /\ mirrors' = mirrors \cup {x}
        /\ session' = session /\ fmq_mutex_held' = fmq_mutex_held
    BY <1>4, <2>1, <2>2, Zenon DEF InsertQueue
  <2>4. Grows(fmq_map_, fmq_map_', id, q)
    BY <2>1, <2>3, EmplaceGrows, Zenon DEF ManagerTypeOK
  <2>5. /\ x \in MirrorRecords /\ x.kind = "fmq" /\ x.id = id /\ x.type = type
        /\ x.sync = sync /\ x.obj = obj
    <3>1. "fmq" \in MirrorKinds /\ type \in MirrorTypes /\ obj \in Nat
      BY Zenon DEF MirrorKinds, MirrorTypes
    <3>2. id \in Nat
      BY <2>4, Zenon DEF Grows
    <3> HIDE DEF ManagerInv, q
    <3>3. IsMirror(x, "fmq", id, type, sync, obj)
      BY <2>2, <3>1, <3>2, MirrorTyped, Zenon
    <3> QED BY <3>3, Zenon DEF IsMirror
  <2>6. ManagerTypeOK'
    <3>1. \A i \in DOMAIN fmq_map_' : fmq_map_'[i].obj \in Nat \ {0}
      <4>1. q.obj = obj
        OBVIOUS
      <4> HIDE DEF q
      <4> QED BY <2>4, <4>1, Zenon DEF Grows, Keeps, ManagerTypeOK
    <3>2. mirrors' \in SUBSET MirrorRecords
      <4>1. mirrors \in SUBSET MirrorRecords
        BY Zenon DEF ManagerTypeOK
      <4> QED BY <2>3, <2>5, <4>1
    <3> QED BY <1>1, <2>4, <3>1, <3>2, Zenon DEF ManagerTypeOK, Grows, Keeps
  <2>7. MirrorsInv'
    <3>1. NamesItsObject(x)'
      BY <2>4, <2>5, Zenon DEF NamesItsObject, Grows
    <3>2. Keeps(fmq_map_, fmq_map_') /\ Keeps(hidl_memory_map_, hidl_memory_map_')
          /\ Keeps(hidl_handle_map_, hidl_handle_map_')
      BY <1>1, <2>4, MapStays, Zenon DEF Grows, ManagerTypeOK
    <3>3. "handle" # "fmq"
      OBVIOUS
    <3> QED BY <2>3, <2>5, <3>1, <3>2, <3>3, MirrorAdded, Zenon
  <2> QED BY <1>2, <2>3, <2>6, <2>7, Zenon DEF SessionServes
<1> QED BY <1>3, <1>4, Zenon
(* An answer whose id the driver left unset: the mirror may name anything. *)
LEMMA UnsetStep ==
  ASSUME ManagerInv, NEW x \in MirrorRecords, mirrors' = mirrors \cup {x}, ~ IdsWereSet',
         UNCHANGED <<queues, memories, handles>>, objects' \in Nat
  PROVE  ManagerInv'
<1>1. ManagerTypeOK'
  <2>1. mirrors' \in SUBSET MirrorRecords
    <3>1. mirrors \in SUBSET MirrorRecords
      BY Zenon DEF ManagerInv, ManagerTypeOK
    <3> QED BY <3>1
  <2> QED BY <2>1, Zenon DEF ManagerInv, ManagerTypeOK, queues, memories, handles
<1>2. FdsInv'
  BY FdsStay, Zenon DEF ManagerInv
<1>3. MirrorsInv'
  BY Zenon DEF MirrorsInv
<1>4. used' # {}
  BY DEF IdsWereSet
<1> QED BY <1>1, <1>2, <1>3, <1>4, Zenon DEF ManagerInv, SessionServes

LEMMA InitFmqStep ==
  ASSUME ManagerInv, NEW type \in Types, NEW sync \in BOOLEAN, InitFmq(type, sync)
  PROVE  ManagerInv'
<1>1. UseIf(type \in OtherTypes, "other_type") /\ UNCHANGED <<memories, handles>>
  BY Zenon DEF InitFmq
<1>2. /\ used' = {} => used = {}
      /\ IdsWereSet' => IdsWereSet
      /\ type \in OtherTypes => ~ IdsWereSet'
  <2>1. "other_type" \in {"struct_result", "other_type", "exclusive_mode"}
    BY Zenon
  <2> QED BY <1>1, <2>1, UsedGrows, Zenon
<1>3. objects \in Nat
  BY Zenon DEF ManagerInv, ManagerTypeOK
<1>4. CASE InsertQueue(type, sync, objects + 1) /\ objects' = objects + 1
  <2>1. PICK o \in Nat \ {0} : o = objects + 1
    BY <1>3
  <2> QED BY <1>1, <1>2, <1>4, <2>1, InsertStep, Zenon
<1>5. CASE /\ type \in OtherTypes
           /\ AddMirror("fmq", 0, type, sync, 0)
           /\ UNCHANGED <<queues, objects, session>>
  <2>1. "fmq" \in MirrorKinds /\ type \in MirrorTypes /\ 0 \in Nat
    BY DEF MirrorKinds, MirrorTypes
  <2>2. Mirror("fmq", 0, type, sync, 0) \in MirrorRecords
    BY <2>1, MirrorTyped, Zenon DEF IsMirror
  <2> QED BY <1>1, <1>2, <1>3, <1>5, <2>2, UnsetStep, Zenon DEF AddMirror
<1> QED BY <1>4, <1>5, Zenon DEF InitFmq

LEMMA InitFmqFromExistingStep ==
  ASSUME ManagerInv, NEW r \in Of("fmq"), InitFmqFromExisting(r)
  PROVE  ManagerInv'
<1> DEFINE found == FindQueue(r.type, r.sync, r.id)
<1>1. /\ r.type \in Supported /\ objects' = objects /\ used' = used
      /\ UNCHANGED <<memories, handles>> /\ session = "ready"
  BY Zenon DEF InitFmqFromExisting
<1>2. IdsWereSet' => IdsWereSet
  BY <1>1, Zenon DEF IdsWereSet
<1>3. r.type \in Types /\ r.sync \in BOOLEAN /\ objects' \in Nat
  <2>1. r \in MirrorRecords
    BY Zenon DEF ManagerInv, ManagerTypeOK, Of
  <2>2. r.sync \in BOOLEAN
    BY <2>1, Zenon DEF MirrorRecords
  <2>3. r.type \in Types
    BY <1>1, Zenon DEF Types, Supported
  <2> QED BY <1>1, <2>2, <2>3, Zenon DEF ManagerInv, ManagerTypeOK
<1>4. CASE ~ fmq_mutex_held /\ found # NoQueue /\ InsertQueue(r.type, r.sync, found.obj)
  <2>1. found.obj \in Nat \ {0}
    BY <1>4, FoundHasRing, Zenon DEF ManagerInv
  <2>2. PICK o \in Nat \ {0} : o = found.obj
    BY <2>1, Zenon
  <2>3. InsertQueue(r.type, r.sync, o)
    BY <1>4, <2>2, Zenon
  <2> HIDE DEF found
  <2> QED BY <1>1, <1>2, <1>3, <2>3, InsertStep, Zenon
<1>5. CASE /\ fmq_mutex_held \/ found = NoQueue
           /\ session' = IF fmq_mutex_held THEN "stuck" ELSE "crashed"
           /\ UNCHANGED <<queues, mirrors>>
  <2>1. ManagerTypeOK'
    BY <1>1, <1>5, Zenon DEF ManagerInv, ManagerTypeOK, queues, memories, handles
  <2>2. FdsInv'
    BY <1>1, FdsStay, Zenon DEF ManagerInv
  <2>3. MirrorsInv'
    BY <1>1, <1>2, <1>5, MirrorsStay, Zenon DEF ManagerInv, queues, memories, handles
  <2>4. used # {}
    <3>1. used = {} => IdsWereSet
      BY DEF IdsWereSet
    <3> QED BY <1>5, <3>1, QueueIsFound, Zenon DEF ManagerInv, SessionServes
  <2> QED BY <1>1, <2>1, <2>2, <2>3, <2>4, Zenon DEF ManagerInv, SessionServes
<1> QED BY <1>4, <1>5, Zenon DEF InitFmqFromExisting

LEMMA RegisterFmqStep ==
  ASSUME ManagerInv, NEW type \in Types, NEW sync \in BOOLEAN, RegisterFmq(type, sync)
  PROVE  ManagerInv'
<1> DEFINE data_type == IF type \in StructTypes THEN NoScalar ELSE type
<1>1. /\ UseIf(type \in StructTypes, "struct_result") /\ UNCHANGED <<memories, handles>>
      /\ objects' = objects + 1 /\ type \in Supported
  BY Zenon DEF RegisterFmq
<1>2. /\ used' = {} => used = {}
      /\ IdsWereSet' => IdsWereSet
      /\ type \in StructTypes => ~ IdsWereSet'
  <2>1. "struct_result" \in {"struct_result", "other_type", "exclusive_mode"}
    BY Zenon
  <2> QED BY <1>1, <2>1, UsedGrows, Zenon
<1>3. objects \in Nat
  BY Zenon DEF ManagerInv, ManagerTypeOK
<1>4. PICK o \in Nat \ {0} : o = objects + 1
  BY <1>3
<1>5. CASE InsertQueue(type, sync, objects + 1)
  BY <1>1, <1>2, <1>4, <1>5, InsertStep, Zenon
<1>6. CASE /\ data_type \notin Supported
           /\ AddMirror("fmq", 0, type, sync, objects + 1)
           /\ UNCHANGED <<queues, session>>
  <2>1. "fmq" \in MirrorKinds /\ type \in MirrorTypes /\ 0 \in Nat /\ o \in Nat
    BY DEF MirrorKinds, MirrorTypes
  <2>2. Mirror("fmq", 0, type, sync, o) \in MirrorRecords
    BY <2>1, MirrorTyped, Zenon DEF IsMirror
  <2>3. type \in StructTypes
    BY <1>1, <1>6, Zenon
  <2> QED BY <1>1, <1>2, <1>4, <1>6, <2>1, <2>2, <2>3, UnsetStep, ZenonT(40) DEF AddMirror
<1> QED BY <1>5, <1>6, Zenon DEF RegisterFmq
(* A request that only looks a queue up.  The lookup fails, and leaves the *)
(* lock held, only after a use outside the common calls.                   *)
LEMMA LookupStep ==
  ASSUME ManagerInv, NEW type, NEW sync, NEW id, LockAndFind(type, sync, id), session = "ready",
         used' = {} => used = {} /\ FindQueue(type, sync, id) # NoQueue,
         IdsWereSet' => IdsWereSet,
         UNCHANGED <<fmq_map_, objects, mirrors, memories, handles>>
  PROVE  ManagerInv'
<1>1. ManagerTypeOK'
  BY Zenon DEF ManagerInv, ManagerTypeOK, memories, handles
<1>2. FdsInv'
  BY FdsStay, Zenon DEF ManagerInv
<1>3. MirrorsInv'
  BY MirrorsStay, Zenon DEF ManagerInv, memories, handles
<1>4. SessionServes'
  <2> SUFFICES ASSUME used' = {} PROVE session' = "ready" /\ ~ fmq_mutex_held'
    BY Zenon DEF SessionServes
  <2>1. ~ fmq_mutex_held /\ FindQueue(type, sync, id) # NoQueue
    BY Zenon DEF ManagerInv, SessionServes
  <2> QED BY <2>1, Zenon DEF LockAndFind
<1> QED BY <1>1, <1>2, <1>3, <1>4, Zenon DEF ManagerInv

LEMMA CommonCallsSetIds == used = {} => IdsWereSet
BY DEF IdsWereSet

LEMMA FmqOpStep ==
  ASSUME ManagerInv, NEW r \in Of("fmq"), FmqOp(r)
  PROVE  ManagerInv'
<1>1. used = {} => FindQueue(r.type, r.sync, r.id) # NoQueue
  BY QueueIsFound, CommonCallsSetIds, Zenon DEF ManagerInv
<1>2. /\ LockAndFind(r.type, r.sync, r.id) /\ session = "ready" /\ used' = used
      /\ UNCHANGED <<fmq_map_, objects, mirrors, memories, handles>>
  BY Zenon DEF FmqOp
<1>3. IdsWereSet' => IdsWereSet
  BY <1>2, Zenon DEF IdsWereSet
<1> QED BY <1>1, <1>2, <1>3, LookupStep, Zenon

LEMMA GetQueueDescAddressStep ==
  ASSUME ManagerInv, NEW r \in Of("fmq"), NEW type \in Types, NEW sync \in BOOLEAN,
         GetQueueDescAddress(r, type, sync)
  PROVE  ManagerInv'
<1>1. /\ LockAndFind(type, sync, r.id) /\ session = "ready"
      /\ UseIf(<<type, sync>> # <<r.type, r.sync>>, "wrong_argument")
      /\ UNCHANGED <<fmq_map_, objects, mirrors, memories, handles>>
  BY Zenon DEF GetQueueDescAddress
<1>2. /\ used' = {} => used = {} /\ <<type, sync>> = <<r.type, r.sync>>
      /\ IdsWereSet' => IdsWereSet
  BY <1>1, UsedGrows, Zenon
<1>3. used' = {} => FindQueue(type, sync, r.id) # NoQueue
  <2> SUFFICES ASSUME used' = {} PROVE FindQueue(type, sync, r.id) # NoQueue
    BY Zenon
  <2>1. type = r.type /\ sync = r.sync
    BY <1>2, Zenon
  <2>2. FindQueue(r.type, r.sync, r.id) # NoQueue
    BY <1>2, QueueIsFound, CommonCallsSetIds, Zenon DEF ManagerInv
  <2> QED BY <2>1, <2>2, Zenon
<1> QED BY <1>1, <1>2, <1>3, LookupStep, Zenon
-----------------------------------------------------------------------------
LEMMA NewHidlMemoryStep ==
  ASSUME ManagerInv, NewHidlMemory
  PROVE  ManagerInv'
<1>1. objects \in Nat /\ IsMap(hidl_memory_map_)
  BY Zenon DEF ManagerInv, ManagerTypeOK
<1>2. PICK o \in Nat : o = objects + 1
  BY <1>1
<1>3. PICK id : id = NewId(hidl_memory_map_)
  BY Zenon
<1>4. PICK x : x = Mirror("memory", id, "none", FALSE, o)
  BY Zenon
<1>5. /\ hidl_memory_map_' = Emplace(hidl_memory_map_, o) /\ mirrors' = mirrors \cup {x}
      /\ objects' = o /\ used' = used /\ session' = session
      /\ fmq_map_' = fmq_map_ /\ fmq_mutex_held' = fmq_mutex_held
      /\ hidl_handle_map_' = hidl_handle_map_ /\ open_fds' = open_fds
  BY <1>2, <1>3, <1>4, Zenon DEF NewHidlMemory, AddMirror, queues, handles
<1>6. Grows(hidl_memory_map_, hidl_memory_map_', id, o)
  BY <1>1, <1>3, <1>5, EmplaceGrows, Zenon
<1>7. x \in MirrorRecords /\ x.kind = "memory" /\ x.id = id /\ x.obj = o
  <2>1. "memory" \in MirrorKinds /\ "none" \in MirrorTypes /\ FALSE \in BOOLEAN
    BY Zenon DEF MirrorKinds, MirrorTypes
  <2>2. id \in Nat
    BY <1>6, Zenon DEF Grows
  <2>3. IsMirror(x, "memory", id, "none", FALSE, o)
    BY <1>4, <2>1, <2>2, MirrorTyped, Zenon
  <2> QED BY <2>3, Zenon DEF IsMirror
<1>8. ManagerTypeOK'
  <2>1. mirrors' \in SUBSET MirrorRecords
    <3>1. mirrors \in SUBSET MirrorRecords
      BY Zenon DEF ManagerInv, ManagerTypeOK
    <3> QED BY <1>5, <1>7, <3>1
  <2> QED BY <1>5, <1>6, <2>1, Zenon DEF ManagerInv, ManagerTypeOK, Grows, Keeps
<1>9. FdsInv'
  BY <1>5, FdsStay, Zenon DEF ManagerInv, handles
<1>10. MirrorsInv'
  <2>1. NamesItsObject(x)'
    BY <1>6, <1>7, Zenon DEF NamesItsObject, Grows
  <2>2. Keeps(fmq_map_, fmq_map_') /\ Keeps(hidl_memory_map_, hidl_memory_map_')
        /\ Keeps(hidl_handle_map_, hidl_handle_map_')
    BY <1>5, <1>6, MapStays, Zenon DEF Grows, ManagerInv, ManagerTypeOK
  <2>3. "handle" # "memory" /\ (IdsWereSet' => IdsWereSet)
    BY <1>5 DEF IdsWereSet
  <2> QED BY <1>5, <1>7, <2>1, <2>2, <2>3, MirrorAdded, Zenon DEF ManagerInv
<1> QED BY <1>5, <1>8, <1>9, <1>10, Zenon DEF ManagerInv, SessionServes
(* A new handle has a descriptor that no other handle has. *)
LEMMA CreateFileStep ==
  ASSUME ManagerInv, CreateFileHandle, UNCHANGED <<queues, memories>>,
         used' = {} => used = {}, IdsWereSet' => IdsWereSet
  PROVE  ManagerInv'
<1>1. /\ objects \in Nat /\ IsMap(hidl_handle_map_)
      /\ open_fds \in SUBSET Nat /\ IsFiniteSet(open_fds)
  BY Zenon DEF ManagerInv, ManagerTypeOK
<1>2. PICK o \in Nat : o = objects + 1
  BY <1>1
<1>3. PICK id : id = NewId(hidl_handle_map_)
  BY Zenon
<1>4. PICK fd \in Nat : fd = FreeFd /\ fd \notin open_fds
  BY <1>1, FreeFdIsFree, Zenon
<1>5. PICK h : h = [fd |-> fd, obj |-> o]
  BY Zenon
<1>6. h \in [fd : Nat, obj : Nat] /\ h.fd = fd /\ h.obj = o /\ h # Released
  BY <1>5 DEF Released
<1>7. PICK x : x = Mirror("handle", id, "none", FALSE, o)
  BY Zenon
<1>8. /\ hidl_handle_map_' = Emplace(hidl_handle_map_, h) /\ open_fds' = open_fds \cup {fd}
      /\ mirrors' = mirrors \cup {x} /\ objects' = o /\ session' = session
      /\ fmq_map_' = fmq_map_ /\ fmq_mutex_held' = fmq_mutex_held
      /\ hidl_memory_map_' = hidl_memory_map_
  BY <1>2, <1>3, <1>4, <1>5, <1>7, Zenon DEF CreateFileHandle, AddMirror, queues, memories
<1>9. Grows(hidl_handle_map_, hidl_handle_map_', id, h)
  BY <1>1, <1>3, <1>8, EmplaceGrows, Zenon
<1>10. /\ x \in MirrorRecords /\ x.kind = "handle" /\ x.id = id /\ x.obj = o
       /\ x.cleaned = FALSE
  <2>1. "handle" \in MirrorKinds /\ "none" \in MirrorTypes /\ FALSE \in BOOLEAN
    BY Zenon DEF MirrorKinds, MirrorTypes
  <2>2. id \in Nat
    BY <1>9, Zenon DEF Grows
  <2>3. IsMirror(x, "handle", id, "none", FALSE, o)
    BY <1>7, <2>1, <2>2, MirrorTyped, Zenon
  <2> QED BY <2>3, Zenon DEF IsMirror
<1>11. ManagerTypeOK'
  <2>1. mirrors' \in SUBSET MirrorRecords
    <3>1. mirrors \in SUBSET MirrorRecords
      BY Zenon DEF ManagerInv, ManagerTypeOK
    <3> QED BY <1>8, <1>10, <3>1
  <2>2. open_fds' \in SUBSET Nat /\ IsFiniteSet(open_fds')
    <3>1. open_fds' \in SUBSET Nat
      BY <1>1, <1>8
    <3> QED BY <1>1, <1>8, <3>1, FS_AddElement, Zenon
  <2>3. \A i \in DOMAIN hidl_handle_map_' :
          hidl_handle_map_'[i] = Released \/ hidl_handle_map_'[i] \in [fd : Nat, obj : Nat]
    <3>1. \A i \in DOMAIN hidl_handle_map_ :
            hidl_handle_map_[i] = Released \/ hidl_handle_map_[i] \in [fd : Nat, obj : Nat]
      BY Zenon DEF ManagerInv, ManagerTypeOK
    <3> QED BY <1>6, <1>9, <3>1, Zenon DEF Grows, Keeps
  <2> QED BY <1>8, <1>9, <2>1, <2>2, <2>3, Zenon DEF ManagerInv, ManagerTypeOK, Grows, Keeps
<1>12. FdsInv'
  <2>1. \A i \in DOMAIN hidl_handle_map_ :
          /\ i \in DOMAIN hidl_handle_map_' /\ hidl_handle_map_'[i] = hidl_handle_map_[i]
          /\ hidl_handle_map_[i] # Released => hidl_handle_map_[i].fd # fd
    BY <1>4, <1>9, Zenon DEF Grows, Keeps, ManagerInv, FdsInv
  <2>2. /\ DOMAIN hidl_handle_map_' = DOMAIN hidl_handle_map_ \cup {id}
        /\ hidl_handle_map_'[id] = h
    BY <1>9, Zenon DEF Grows
  <2>3. (\A i \in DOMAIN hidl_handle_map_ :
          hidl_handle_map_[i] # Released => hidl_handle_map_[i].fd \in open_fds)'
    BY <1>6, <1>8, <2>1, <2>2, Zenon DEF ManagerInv, FdsInv
  <2>4. (\A g \in open_fds : \E i \in DOMAIN hidl_handle_map_ : hidl_handle_map_[i].fd = g)'
    <3>1. hidl_handle_map_'[id].fd = fd /\ id \in DOMAIN hidl_handle_map_'
      BY <1>6, <2>2, Zenon
    <3>2. \A g \in open_fds : \E i \in DOMAIN hidl_handle_map_ : hidl_handle_map_[i].fd = g
      BY Zenon DEF ManagerInv, FdsInv
    <3>3. \A g \in open_fds :
            \E i \in DOMAIN hidl_handle_map_' : hidl_handle_map_'[i].fd = g
      BY <2>1, <3>2, Zenon
    <3>4. \A g \in open_fds' : g \in open_fds \/ g = fd
      BY <1>8, Zenon
    <3> QED BY <3>1, <3>3, <3>4, Zenon
  <2>5. ASSUME NEW i \in DOMAIN hidl_handle_map_', NEW j \in DOMAIN hidl_handle_map_',
               hidl_handle_map_'[i] # Released, hidl_handle_map_'[j] # Released,
               hidl_handle_map_'[i].fd = hidl_handle_map_'[j].fd
        PROVE  i = j
    <3>1. CASE i = id \/ j = id
      BY <1>6, <2>1, <2>2, <2>5, <3>1, Zenon
    <3>2. CASE i \in DOMAIN hidl_handle_map_ /\ j \in DOMAIN hidl_handle_map_
      BY <2>1, <2>5, <3>2, ZenonT(40) DEF ManagerInv, FdsInv
    <3> QED BY <2>2, <3>1, <3>2, Zenon
  <2> QED BY <2>3, <2>4, <2>5, Zenon DEF FdsInv
<1>13. MirrorsInv'
  <2>1. NamesItsObject(x)'
    BY <1>6, <1>9, <1>10, Zenon DEF NamesItsObject, Grows
  <2>2. Keeps(fmq_map_, fmq_map_') /\ Keeps(hidl_memory_map_, hidl_memory_map_')
        /\ Keeps(hidl_handle_map_, hidl_handle_map_')
    BY <1>8, <1>9, MapStays, Zenon DEF Grows, ManagerInv, ManagerTypeOK
  <2>3. x.id \notin DOMAIN hidl_handle_map_
    BY <1>9, <1>10, Zenon DEF Grows
  <2> QED BY <1>8, <2>1, <2>2, <2>3, MirrorAdded, Zenon DEF ManagerInv
<1> QED BY <1>8, <1>11, <1>12, <1>13, Zenon DEF ManagerInv, SessionServes

LEMMA InitHidlHandleStep ==
  ASSUME ManagerInv, NEW exclusive \in BOOLEAN, InitHidlHandleForSingleFile(exclusive)
  PROVE  ManagerInv'
<1>1. UseIf(exclusive, "exclusive_mode") /\ UNCHANGED <<queues, memories>>
  BY Zenon DEF InitHidlHandleForSingleFile
<1>2. /\ used' = {} => used = {}
      /\ IdsWereSet' => IdsWereSet
      /\ exclusive => ~ IdsWereSet'
  <2>1. "exclusive_mode" \in {"struct_result", "other_type", "exclusive_mode"}
    BY Zenon
  <2> QED BY <1>1, <2>1, UsedGrows, Zenon
<1>3. CASE CreateFileHandle
  BY <1>1, <1>2, <1>3, CreateFileStep, Zenon
<1>4. CASE /\ exclusive
           /\ AddMirror("handle", 0, "none", FALSE, 0)
           /\ UNCHANGED <<handles, objects, session>>
  <2>1. "handle" \in MirrorKinds /\ "none" \in MirrorTypes /\ FALSE \in BOOLEAN /\ 0 \in Nat
    BY DEF MirrorKinds, MirrorTypes
  <2>2. Mirror("handle", 0, "none", FALSE, 0) \in MirrorRecords
    BY <2>1, MirrorTyped, Zenon DEF IsMirror
  <2>3. objects' \in Nat
    BY <1>4, Zenon DEF ManagerInv, ManagerTypeOK
  <2> QED BY <1>1, <1>2, <1>4, <2>2, <2>3, UnsetStep, Zenon DEF AddMirror
<1> QED BY <1>3, <1>4, Zenon DEF InitHidlHandleForSingleFile

LEMMA RegisterHidlHandleStep ==
  ASSUME ManagerInv, RegisterHidlHandle
  PROVE  ManagerInv'
BY CreateFileStep, Zenon DEF RegisterHidlHandle, IdsWereSet

LEMMA ReadFileStep ==
  ASSUME ManagerInv, NEW r, ReadFile(r)
  PROVE  ManagerInv'
<1>1. /\ used' = used \cup {"failing_read"}
      /\ UNCHANGED <<queues, memories, handles, objects, mirrors>>
  BY Zenon DEF ReadFile, Use
<1>2. used' # {} /\ (IdsWereSet' => IdsWereSet)
  BY <1>1 DEF IdsWereSet
<1>3. ManagerTypeOK'
  BY <1>1, Zenon DEF ManagerInv, ManagerTypeOK, queues, memories, handles
<1>4. FdsInv'
  BY <1>1, FdsStay, Zenon DEF ManagerInv
<1>5. MirrorsInv'
  BY <1>1, <1>2, MirrorsStay, Zenon DEF ManagerInv, queues, memories, handles
<1> QED BY <1>2, <1>3, <1>4, <1>5, Zenon DEF ManagerInv, SessionServes
(* Releasing a handle closes its descriptor and no other: the other        *)
(* handles have other descriptors, and a handle that was released before   *)
(* has none.                                                               *)
LEMMA UnregisterHidlHandleStep ==
  ASSUME ManagerInv, NEW r \in mirrors, r.kind = "handle", UnregisterHidlHandle(r)
  PROVE  ManagerInv'
<1>1. PICK y : y = [r EXCEPT !.cleaned = TRUE]
  BY Zenon
<1>2. /\ mirrors' = (mirrors \ {r}) \cup {y} /\ objects' = objects /\ session' = session
      /\ used' = used /\ fmq_map_' = fmq_map_ /\ fmq_mutex_held' = fmq_mutex_held
      /\ hidl_memory_map_' = hidl_memory_map_
  BY <1>1, Zenon DEF UnregisterHidlHandle, queues, memories
<1>3. r \in MirrorRecords
  BY Zenon DEF ManagerInv, ManagerTypeOK
<1>4. /\ y \in MirrorRecords /\ y.kind = r.kind /\ y.id = r.id /\ y.cleaned = TRUE
  BY <1>1, <1>3, Zenon DEF MirrorRecords
<1>5. mirrors' \in SUBSET MirrorRecords
  <2>1. mirrors \in SUBSET MirrorRecords
    BY Zenon DEF ManagerInv, ManagerTypeOK
  <2> QED BY <1>2, <1>4, <2>1
<1>6. CASE r.id \in DOMAIN hidl_handle_map_
  <2>1. PICK h : h = hidl_handle_map_[r.id]
    BY Zenon
  <2>2. /\ open_fds' = open_fds \ {h.fd}
        /\ hidl_handle_map_' = [hidl_handle_map_ EXCEPT ![r.id] = Released]
    BY <1>6, <2>1, Zenon DEF UnregisterHidlHandle
  <2>3. /\ DOMAIN hidl_handle_map_' = DOMAIN hidl_handle_map_
        /\ hidl_handle_map_'[r.id] = Released
        /\ \A i \in DOMAIN hidl_handle_map_ :
             i # r.id => hidl_handle_map_'[i] = hidl_handle_map_[i]
    BY <1>6, <2>2, Zenon
  <2>4. IsMap(hidl_handle_map_')
    <3>1. PICK n \in Nat : hidl_handle_map_ = [i \in 0..(n - 1) |-> hidl_handle_map_[i]]
      BY Zenon DEF ManagerInv, ManagerTypeOK, IsMap
    <3>2. DOMAIN hidl_handle_map_ = 0..(n - 1)
      BY <3>1, Zenon
    <3>3. hidl_handle_map_' = [i \in DOMAIN hidl_handle_map_ |-> hidl_handle_map_'[i]]
      BY <2>2, Zenon
    <3> QED BY <3>2, <3>3, Zenon DEF IsMap
  <2>5. ManagerTypeOK'
    <3>1. open_fds' \in SUBSET Nat /\ IsFiniteSet(open_fds')
      <4>1. open_fds \in SUBSET Nat /\ IsFiniteSet(open_fds)
        BY Zenon DEF ManagerInv, ManagerTypeOK
      <4>2. IsFiniteSet(open_fds \ {h.fd})
        BY <4>1, FS_RemoveElement, Zenon
      <4> QED BY <2>2, <4>1, <4>2, Zenon
    <3>2. \A i \in DOMAIN hidl_handle_map_' :
            hidl_handle_map_'[i] = Released \/ hidl_handle_map_'[i] \in [fd : Nat, obj : Nat]
      <4>1. \A i \in DOMAIN hidl_handle_map_ :
              hidl_handle_map_[i] = Released \/ hidl_handle_map_[i] \in [fd : Nat, obj : Nat]
        BY Zenon DEF ManagerInv, ManagerTypeOK
      <4> QED BY <2>3, <4>1, Zenon
    <3> QED BY <1>2, <1>5, <2>4, <3>1, <3>2, Zenon DEF ManagerInv, ManagerTypeOK
  <2>6. FdsInv'
    <3>1. /\ \A i \in DOMAIN hidl_handle_map_ :
               hidl_handle_map_[i] # Released => hidl_handle_map_[i].fd \in open_fds
          /\ \A fd \in open_fds :
               \E i \in DOMAIN hidl_handle_map_ : hidl_handle_map_[i].fd = fd
          /\ \A i, j \in DOMAIN hidl_handle_map_ :
               /\ hidl_handle_map_[i] # Released /\ hidl_handle_map_[j] # Released
               /\ hidl_handle_map_[i].fd = hidl_handle_map_[j].fd
               => i = j
      BY Zenon DEF ManagerInv, FdsInv
    <3>2. Released.fd \notin Nat
      BY DEF Released
    <3>3. \A i \in DOMAIN hidl_handle_map_ :
            hidl_handle_map_[i] # Released => hidl_handle_map_[i].fd \in Nat
      BY Zenon DEF ManagerInv, ManagerTypeOK
    <3>4. \A i \in DOMAIN hidl_handle_map_ :
            hidl_handle_map_[i] # Released /\ i # r.id => hidl_handle_map_[i].fd # h.fd
      <4>1. CASE h = Released
        BY <3>2, <3>3, <4>1, Zenon
      <4>2. CASE h # Released
        BY <1>6, <2>1, <3>1, <4>2, Zenon
      <4> QED BY <4>1, <4>2, Zenon
    <3>5. (\A i \in DOMAIN hidl_handle_map_ :
            hidl_handle_map_[i] # Released => hidl_handle_map_[i].fd \in open_fds)'
      <4> SUFFICES ASSUME NEW i \in DOMAIN hidl_handle_map_, hidl_handle_map_'[i] # Released
                   PROVE  hidl_handle_map_'[i].fd \in open_fds'
        BY <2>3, Zenon
      <4>1. i # r.id /\ hidl_handle_map_'[i] = hidl_handle_map_[i]
        BY <2>3, Zenon
      <4> QED BY <2>2, <3>1, <3>4, <4>1, Zenon
    <3>6. (\A g \in open_fds : \E i \in DOMAIN hidl_handle_map_ : hidl_handle_map_[i].fd = g)'
      <4> SUFFICES ASSUME NEW g \in open_fds, g # h.fd
                   PROVE  \E i \in DOMAIN hidl_handle_map_' : hidl_handle_map_'[i].fd = g
        BY <2>2, Zenon
      <4>1. PICK i \in DOMAIN hidl_handle_map_ : hidl_handle_map_[i].fd = g
        BY <3>1, Zenon
      <4>2. i # r.id
        BY <2>1, <4>1, Zenon
      <4> QED BY <2>3, <4>1, <4>2, Zenon
    <3>7. (\A i, j \in DOMAIN hidl_handle_map_ :
            /\ hidl_handle_map_[i] # Released /\ hidl_handle_map_[j] # Released
            /\ hidl_handle_map_[i].fd = hidl_handle_map_[j].fd
            => i = j)'
      <4> SUFFICES ASSUME NEW i \in DOMAIN hidl_handle_map_, NEW j \in DOMAIN hidl_handle_map_,
                          hidl_handle_map_'[i] # Released, hidl_handle_map_'[j] # Released,
                          hidl_handle_map_'[i].fd = hidl_handle_map_'[j].fd
                   PROVE  i = j
        BY <2>3, Zenon
      <4>1. hidl_handle_map_'[i] = hidl_handle_map_[i]
            /\ hidl_handle_map_'[j] = hidl_handle_map_[j]
        BY <2>3, Zenon
      <4> QED BY <3>1, <4>1, Zenon
    <3> QED BY <3>5, <3>6, <3>7, Zenon DEF FdsInv
  <2>7. MirrorsInv'
    <3> SUFFICES ASSUME IdsWereSet' PROVE (\A x \in mirrors :
                    /\ NamesItsObject(x)
                    /\ \A z \in mirrors :
                         x.kind = "handle" /\ z.kind = "handle" /\ z.id = x.id => z = x)'
      BY Zenon DEF MirrorsInv
    <3>1. IdsWereSet
      BY <1>2, Zenon DEF IdsWereSet
    <3>2. \A x \in mirrors :
            /\ NamesItsObject(x)
            /\ \A z \in mirrors :
                 x.kind = "handle" /\ z.kind = "handle" /\ z.id = x.id => z = x
      BY <3>1, Zenon DEF ManagerInv, MirrorsInv
    <3>3. NamesItsObject(y)'
      <4>1. Released.obj = 0
        BY DEF Released
      <4> QED BY <1>4, <1>6, <2>3, <4>1, Zenon DEF NamesItsObject
    <3>4. ASSUME NEW x \in mirrors, x # r PROVE NamesItsObject(x)'
      <4>1. NamesItsObject(x) /\ (x.kind = "handle" => x.id # r.id)
        BY <3>2, <3>4, Zenon
      <4> QED BY <1>2, <2>3, <4>1, Zenon DEF NamesItsObject
    <3>5. \A x \in mirrors' : (x \in mirrors /\ x # r) \/ x = y
      BY <1>2, Zenon
    <3>6. \A x, z \in mirrors' :
            x.kind = "handle" /\ z.kind = "handle" /\ z.id = x.id => z = x
      BY <1>4, <3>2, <3>5, ZenonT(40)
    <3> QED BY <3>3, <3>4, <3>5, <3>6, Zenon
  <2> QED BY <1>2, <2>5, <2>6, <2>7, Zenon DEF ManagerInv, SessionServes
<1>7. CASE r.id \notin DOMAIN hidl_handle_map_
  <2>1. UNCHANGED handles
    BY <1>7, Zenon DEF UnregisterHidlHandle
  <2>2. ManagerTypeOK'
    BY <1>2, <1>5, <2>1, Zenon DEF ManagerInv, ManagerTypeOK, handles
  <2>3. FdsInv'
    BY <2>1, FdsStay, Zenon DEF ManagerInv
  <2>4. ~ IdsWereSet
    <3>1. "handle" # "fmq" /\ "handle" # "memory"
      OBVIOUS
    <3>2. ~ NamesItsObject(r)
      BY <1>7, <3>1, Zenon DEF NamesItsObject
    <3> QED BY <3>2, Zenon DEF ManagerInv, MirrorsInv
  <2>5. MirrorsInv'
    BY <1>2, <2>4, Zenon DEF MirrorsInv, IdsWereSet
  <2> QED BY <1>2, <2>2, <2>3, <2>5, Zenon DEF ManagerInv, SessionServes
<1> QED BY <1>6, <1>7, Zenon
-----------------------------------------------------------------------------
LEMMA InitHolds == ManagerInit => ManagerInv
<1> SUFFICES ASSUME ManagerInit PROVE ManagerInv
  OBVIOUS
<1>1. /\ DOMAIN fmq_map_ = {} /\ DOMAIN hidl_memory_map_ = {} /\ DOMAIN hidl_handle_map_ = {}
      /\ open_fds = {} /\ mirrors = {} /\ objects = 0
  BY Zenon DEF ManagerInit
<1>2. ASSUME NEW map, NEW v, map = [i \in {} |-> v] PROVE IsMap(map)
  <2>1. map = [i \in 0..(0 - 1) |-> map[i]]
    <3>1. 0..(0 - 1) = {}
      OBVIOUS
    <3> QED BY <1>2, <3>1
  <2>2. 0 \in Nat
    OBVIOUS
  <2> QED BY <2>1, <2>2, Zenon DEF IsMap
<1>3. IsMap(fmq_map_) /\ IsMap(hidl_memory_map_) /\ IsMap(hidl_handle_map_)
  BY <1>2, Zenon DEF ManagerInit
<1>4. 0 \in Nat /\ IsFiniteSet({})
  BY FS_EmptySet
<1>5. ManagerTypeOK
  BY <1>1, <1>3, <1>4, Zenon DEF ManagerTypeOK
<1>6. FdsInv /\ MirrorsInv
  BY <1>1, Zenon DEF FdsInv, MirrorsInv
<1>7. SessionServes
  BY Zenon DEF ManagerInit, SessionServes
<1> QED BY <1>5, <1>6, <1>7, Zenon DEF ManagerInv

LEMMA NextHolds == ManagerInv /\ [ManagerNext]_managerVars => ManagerInv'
<1> SUFFICES ASSUME ManagerInv, [ManagerNext]_managerVars PROVE ManagerInv'
  OBVIOUS
<1>1. CASE ManagerNext
  <2>1. \A k : \A x \in {z \in mirrors : z.kind = k} : x \in mirrors /\ x.kind = k
    BY Zenon
  <2> QED BY <1>1, <2>1, InitFmqStep, RegisterFmqStep, InitFmqFromExistingStep, FmqOpStep,
             GetQueueDescAddressStep, NewHidlMemoryStep, InitHidlHandleStep,
             RegisterHidlHandleStep, ReadFileStep, UnregisterHidlHandleStep, ZenonT(40) DEF ManagerNext
<1>2. CASE UNCHANGED managerVars
  BY <1>2, Zenon DEF managerVars, ManagerInv, ManagerTypeOK, FdsInv, MirrorsInv, SessionServes, IdsWereSet,
                     NamesItsObject
<1> QED BY <1>1, <1>2, Zenon

LEMMA Invariant == ManagerSpec => []ManagerInv
BY InitHolds, NextHolds, PTL DEF ManagerSpec

(* However many queues, memories and handles the tests of a session make   *)
(* and clean up, FindQueue does not lock map_mutex_ for good while they    *)
(* keep to the common calls; the ids that size() hands out go on naming    *)
(* their objects; and UnregisterHidlHandle closes the descriptor of its    *)
(* handle and of no other.                                                 *)
THEOREM ResourcesAreAlwaysKept == ManagerSpec => []ResourcesAreKept
<1>1. ManagerInv => ResourcesAreKept
  <2> SUFFICES ASSUME ManagerInv PROVE ResourcesAreKept
    OBVIOUS
  <2>1. SessionServes /\ MirrorsNameTheirObject
    BY Zenon DEF ManagerInv, MirrorsInv, IdsWereSet, MirrorsNameTheirObject
  <2>2. DescriptorsOwnedOnce
    <3> DEFINE live == {i \in DOMAIN hidl_handle_map_ : hidl_handle_map_[i] # Released}
    <3>1. \A i, j \in live : hidl_handle_map_[i].fd = hidl_handle_map_[j].fd => i = j
      BY Zenon DEF ManagerInv, FdsInv
    <3>2. \A i \in live : hidl_handle_map_[i].fd \in open_fds
      BY Zenon DEF ManagerInv, FdsInv
    <3>3. ASSUME NEW fd \in open_fds PROVE \E i \in live : hidl_handle_map_[i].fd = fd
      <4>1. PICK i \in DOMAIN hidl_handle_map_ : hidl_handle_map_[i].fd = fd
        BY Zenon DEF ManagerInv, FdsInv
      <4>2. fd \in Nat
        BY Zenon DEF ManagerInv, ManagerTypeOK
      <4>3. Released.fd \notin Nat
        BY DEF Released
      <4>4. i \in live
        BY <4>1, <4>2, <4>3, Zenon
      <4> QED BY <4>1, <4>4, Zenon
    <3>4. open_fds = {hidl_handle_map_[i].fd : i \in live}
      <4> HIDE DEF live
      <4> QED BY <3>2, <3>3, Zenon
    <3> QED BY <3>1, <3>4, Zenon DEF DescriptorsOwnedOnce
  <2> QED BY <2>1, <2>2, Zenon DEF ResourcesAreKept
<1> QED BY <1>1, Invariant, PTL
=============================================================================
