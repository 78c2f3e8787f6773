--------------------------------- MODULE Rpc ---------------------------------
(***************************************************************************)
(* One session of the host's VtsTcpClient: the TCP connection, the agent's *)
(* process for the session (AgentRequestHandler), its connection to a      *)
(* driver and the driver's process for that connection (the HAL driver's   *)
(* SocketServer or the shell driver).  All four are sequential; requests   *)
(* and responses carry no identification in the code, so the numbers they  *)
(* have here are history.                                                  *)
(*                                                                         *)
(* A mirror exists only after LaunchDriverService succeeded, so the client *)
(* sends calls and resource requests after it launched a HAL driver and    *)
(* shell commands after it launched a shell driver.                        *)
(***************************************************************************)
EXTENDS Integers, Sequences, FiniteSets

CONSTANTS
  DriverType,   \* "hal" or "shell"
  Faults,       \* subset of FaultNames
  MaxRequests   \* bound: requests sent in the session

FaultNames == {"timeout", "interrupt", "crash", "empty"}

ASSUME ConstantsAssumption ==
  /\ DriverType \in {"hal", "shell"}
  /\ Faults \subseteq FaultNames
  /\ MaxRequests \in Nat

Kinds == {"local", "launch", "call", "read_spec", "resource", "shell"}
Codes == {"SUCCESS", "FAIL", "UNKNOWN"}
Nobody == [id |-> 0, kind |-> "local"]

VARIABLES
  channel,         \* the client's connection: "open" or "closed"
  waiting,         \* the request the client waits for, or Nobody
  reads,           \* reads RecvResponse may still make
  launched,        \* LaunchDriverService returned success
  error,           \* client.error is set
  sent,            \* number of requests sent
  requests,        \* on the connection to the agent: sequence of requests
  responses,       \* on the connection to the host: sequence of [id, code]
  agent,           \* "idle", "driver" (waits for the driver) or "gone"
  serving,         \* the request the agent serves, or Nobody
  driver_client_,  \* the agent has a connection to a driver
  driver,          \* the driver's process for it: "none", "idle", "gone"
  commands,        \* on the connection to the driver: sequence of requests
  results,         \* on the connection from the driver: sequence of [id, empty]
  served,          \* history: ids of the requests the driver answered
  abandoned,       \* history: ids of requests the client no longer waits for
  returned         \* history: what the client's calls returned

client == <<channel, waiting, reads, launched, error, sent, abandoned, returned>>
device == <<agent, serving, driver_client_, driver, commands, results, served>>
vars == <<client, device, requests, responses>>

HalKinds == {"call", "read_spec", "resource"}
NeedsDriver == HalKinds \cup {"shell"}
-----------------------------------------------------------------------------
Init ==
  /\ channel = "open" /\ waiting = Nobody /\ reads = 0 /\ launched = FALSE
  /\ error = FALSE /\ sent = 0
  /\ requests = <<>> /\ responses = <<>>
  /\ agent = "idle" /\ serving = Nobody
  /\ driver_client_ = FALSE /\ driver = "none" /\ commands = <<>> /\ results = <<>>
  /\ served = {} /\ abandoned = {} /\ returned = <<>>

(* The retries of RecvResponse: two for these, none for the others. *)
Reads(k) == IF k \in {"shell", "read_spec"} THEN 3 ELSE 1

SendCommand(k) ==
  /\ channel = "open" /\ waiting = Nobody /\ sent < MaxRequests
  /\ k \in HalKinds => launched /\ DriverType = "hal"
  /\ k = "shell" => launched /\ DriverType = "shell"
  /\ k = "launch" => ~launched
  /\ sent' = sent + 1
  /\ waiting' = [id |-> sent + 1, kind |-> k]
  /\ reads' = Reads(k)
  /\ requests' = Append(requests, waiting')
  /\ UNCHANGED <<channel, launched, error, abandoned, returned, device, responses>>

(* What the client's method makes of a response code: ReadSpecification    *)
(* and the resource requests return the message whatever the code is, the  *)
(* others fail.                                                            *)
Outcome(k, code) ==
  IF code = "SUCCESS" THEN "ok"
  ELSE IF k \in {"resource", "read_spec"} THEN "unchecked" ELSE "failed"

(* A response was read: the call is over.  client.error is kept only for   *)
(* shell commands.                                                         *)
Return(id, code) ==
  /\ returned' = Append(returned, [id |-> waiting.id, kind |-> waiting.kind,
                                   answer |-> id, outcome |-> Outcome(waiting.kind, code)])
  /\ launched' = (launched \/ (waiting.kind = "launch" /\ code = "SUCCESS"))
  /\ error' = IF waiting.kind = "shell" THEN code # "SUCCESS" ELSE error
  /\ waiting' = Nobody /\ reads' = 0

RecvResponse ==
  /\ waiting # Nobody /\ responses # <<>>
  /\ Return(Head(responses).id, Head(responses).code)
  /\ responses' = Tail(responses)
  /\ UNCHANGED <<channel, sent, abandoned, device, requests>>

(* readline returns nothing when the agent's end is closed: the empty      *)
(* header is length 0 and the empty message has the default code.          *)
RecvEof ==
  /\ waiting # Nobody /\ responses = <<>> /\ agent = "gone"
  /\ Return(0, "UNKNOWN")
  /\ UNCHANGED <<channel, sent, abandoned, device, requests, responses>>

(* socket.timeout: RecvResponse reads again or returns None, which is an   *)
(* AttributeError in the callers other than the shell and resource ones.   *)
SocketTimeout ==
  /\ "timeout" \in Faults
  /\ waiting # Nobody /\ responses = <<>> /\ agent # "gone"
  /\ IF reads > 1
     THEN reads' = reads - 1 /\ UNCHANGED <<waiting, abandoned, error, returned>>
     ELSE /\ abandoned' = abandoned \cup {waiting.id}
          /\ error' = (error \/ waiting.kind = "shell")
          /\ returned' = Append(returned, [id |-> waiting.id, kind |-> waiting.kind,
                                           answer |-> 0, outcome |-> "failed"])
          /\ waiting' = Nobody /\ reads' = 0
  /\ UNCHANGED <<channel, launched, sent, device, requests, responses>>

(* The class timer or an interrupt raises out of the read, whether or not  *)
(* a response is there: ExecuteShellCommand keeps an Exception as error.   *)
Interrupted ==
  /\ "interrupt" \in Faults
  /\ waiting # Nobody
  /\ abandoned' = abandoned \cup {waiting.id}
  /\ \E timer \in BOOLEAN : error' = (error \/ (waiting.kind = "shell" /\ timer))
  /\ waiting' = Nobody /\ reads' = 0
  /\ UNCHANGED <<channel, launched, sent, returned, device, requests, responses>>

Disconnect ==
  /\ channel = "open" /\ waiting = Nobody
  /\ channel' = "closed"
  /\ UNCHANGED <<waiting, reads, launched, error, sent, abandoned, returned, device,
                 requests, responses>>
-----------------------------------------------------------------------------
(* A failure is sent and then, the return forgotten, the result as well. *)
RespondTwice(id, code) ==
  /\ IF channel = "open"
     THEN /\ responses' = responses \o IF code = "FAIL"
               THEN <<[id |-> id, code |-> "FAIL"], [id |-> id, code |-> "SUCCESS"]>>
               ELSE <<[id |-> id, code |-> code]>>
          /\ agent' = "idle"
     ELSE UNCHANGED responses /\ agent' = "gone"
  /\ serving' = Nobody

(* VtsSocketSendMessage to the host: with the connection closed the write  *)
(* fails and the process is over.                                          *)
Respond(id, code) ==
  /\ IF channel = "open"
     THEN responses' = Append(responses, [id |-> id, code |-> code]) /\ agent' = "idle"
     ELSE UNCHANGED responses /\ agent' = "gone"
  /\ serving' = Nobody

Receive(kinds) ==
  /\ agent = "idle" /\ requests # <<>>
  /\ Head(requests).kind \in kinds
  /\ requests' = Tail(requests)

(* LIST_HALS, SET_HOST_INFO, CHECK_DRIVER_SERVICE and PING. *)
ProcessLocal ==
  /\ Receive({"local"})
  /\ \E code \in {"SUCCESS", "FAIL"} : Respond(Head(requests).id, code)
  /\ UNCHANGED <<client, driver_client_, driver, commands, results, served>>

(* LaunchDriverService: no driver answers; the driver runs but loading the *)
(* HAL fails, in which case it stays the agent's driver_client_, or kills  *)
(* it; or all is well.                                                     *)
LaunchDriverService ==
  /\ Receive({"launch"})
  /\ \E o \in {"no_driver", "load_fails", "load_crashes", "ok"} :
       /\ o \in {"load_fails", "load_crashes"} => DriverType = "hal"
       /\ o = "load_crashes" => "crash" \in Faults
       /\ Respond(Head(requests).id, IF o = "ok" THEN "SUCCESS" ELSE "FAIL")
       /\ driver_client_' = (driver_client_ \/ o # "no_driver")
       /\ driver' = IF o = "no_driver" THEN driver
                    ELSE IF o = "load_crashes" THEN "gone" ELSE "idle"
       /\ commands' = IF o = "no_driver" THEN commands ELSE <<>>
       /\ results' = IF o = "no_driver" THEN results ELSE <<>>
  /\ UNCHANGED <<client, served>>

(* The requests for the driver.  Without a driver_client_ a shell command  *)
(* gets no response and the others end the session; a write to a driver    *)
(* that is gone ends it too.                                               *)
ForwardToDriver ==
  /\ Receive(NeedsDriver)
  /\ IF ~driver_client_
     THEN /\ agent' = IF Head(requests).kind = "shell" THEN "idle" ELSE "gone"
          /\ UNCHANGED <<serving, commands>>
     ELSE IF driver = "gone"
     THEN agent' = "gone" /\ UNCHANGED <<serving, commands>>
     ELSE /\ agent' = "driver" /\ serving' = Head(requests)
          /\ commands' = Append(commands, Head(requests))
  /\ UNCHANGED <<client, driver_client_, driver, results, served, responses>>

(* SendApiResult makes an empty result of a call a failure. *)
ReplyFromDriver ==
  /\ agent = "driver" /\ results # <<>>
  /\ Respond(serving.id, IF Head(results).empty THEN "FAIL" ELSE "SUCCESS")
  /\ results' = Tail(results)
  /\ UNCHANGED <<client, driver_client_, driver, commands, served, requests>>

(* The read of the response fails because the driver is gone, and the      *)
(* agent goes on as if there had been an answer.                           *)
DriverEofIgnored ==
  /\ agent = "driver" /\ results = <<>> /\ driver = "gone"
  /\ Respond(serving.id, "SUCCESS")
  /\ UNCHANGED <<client, driver_client_, driver, commands, results, served, requests>>

(* The read of the driver's response fails. *)
DriverEof ==
  /\ agent = "driver" /\ results = <<>> /\ driver = "gone"
  /\ Respond(serving.id, "FAIL")
  /\ UNCHANGED <<client, driver_client_, driver, commands, results, served, requests>>

(* The agent reads the end of the host's connection. *)
AgentEof ==
  /\ agent = "idle" /\ requests = <<>> /\ channel = "closed"
  /\ agent' = "gone"
  /\ UNCHANGED <<client, serving, driver_client_, driver, commands, results, served,
                 requests, responses>>
-----------------------------------------------------------------------------
(* The HAL driver's ProcessOneCommand: one response for every command, in  *)
(* which the result of a call or a specification may be empty.             *)
HalAnswers(c) ==
  [id : {c.id}, empty : IF c.kind # "resource" /\ "empty" \in Faults
                        THEN BOOLEAN ELSE {FALSE}]

(* The shell driver runs the commands one after the other and answers. *)
ShellAnswers(c) == {[id |-> c.id, empty |-> FALSE]}

DriverServes ==
  /\ driver = "idle" /\ commands # <<>>
  /\ \E r \in IF Head(commands).kind = "shell" THEN ShellAnswers(Head(commands))
              ELSE HalAnswers(Head(commands)) : results' = Append(results, r)
  /\ commands' = Tail(commands)
  /\ served' = served \cup {Head(commands).id}
  /\ UNCHANGED <<client, agent, serving, driver_client_, driver, requests, responses>>

DriverCrash ==
  /\ "crash" \in Faults
  /\ driver = "idle"
  /\ driver' = "gone"
  /\ UNCHANGED <<client, agent, serving, driver_client_, commands, results, served,
                 requests, responses>>

(* The empty command is skipped instead of ending the loop. *)
DriverReadsEofContinues ==
  /\ driver = "idle" /\ commands = <<>> /\ agent = "gone"
  /\ UNCHANGED vars

(* The driver's process reads the end of the agent's connection. *)
DriverReadsEof ==
  /\ driver = "idle" /\ commands = <<>> /\ agent = "gone"
  /\ driver' = "gone"
  /\ UNCHANGED <<client, agent, serving, driver_client_, commands, results, served,
                 requests, responses>>

AgentStep == ProcessLocal \/ LaunchDriverService \/ ForwardToDriver \/ ReplyFromDriver
             \/ DriverEof \/ AgentEof
DriverStep == DriverServes \/ DriverReadsEof

Next ==
  \/ \E k \in Kinds : SendCommand(k)
  \/ RecvResponse \/ RecvEof \/ SocketTimeout \/ Interrupted \/ Disconnect
  \/ AgentStep \/ DriverStep \/ DriverCrash

Spec == Init /\ [][Next]_vars

(* Both processes and the client's reads go on; nobody has to send or      *)
(* disconnect.                                                             *)
FairSpec == Spec /\ WF_vars(AgentStep) /\ WF_vars(DriverStep)
                 /\ WF_vars(RecvResponse \/ RecvEof)
-----------------------------------------------------------------------------
Requests == [id : Nat, kind : Kinds]
Responses == [id : Nat, code : Codes]
Results == [id : Nat, empty : BOOLEAN]
Returns == [id : Nat, kind : Kinds, answer : Nat, outcome : {"ok", "failed", "unchecked"}]

ClientType ==
  /\ channel \in {"open", "closed"} /\ waiting \in Requests /\ reads \in 0..3
  /\ launched \in BOOLEAN /\ error \in BOOLEAN /\ sent \in 0..MaxRequests
  /\ abandoned \subseteq Nat /\ returned \in Seq(Returns)
PipeType == requests \in Seq(Requests) /\ responses \in Seq(Responses)
DeviceType ==
  /\ agent \in {"idle", "driver", "gone"} /\ serving \in Requests
  /\ driver_client_ \in BOOLEAN /\ driver \in {"none", "idle", "gone"}
  /\ commands \in Seq(Requests) /\ results \in Seq(Results) /\ served \subseteq Nat

(* Type invariant. *)
TypeOK == ClientType /\ PipeType /\ DeviceType

(* A client is behind by at most the requests it gave up: the answer that  *)
(* RecvResponse returns is the one to its own request or to one of as many *)
(* earlier ones as the client stopped waiting for, and never a later one.  *)
LagIsBounded ==
  \A i \in DOMAIN returned :
    returned[i].answer # 0 =>
      /\ returned[i].answer <= returned[i].id
      /\ returned[i].id <= returned[i].answer + Cardinality(abandoned)

(* Answers are read at most once and in the order of the requests. *)
AnswersInOrder ==
  \A i, j \in DOMAIN returned :
    i < j /\ returned[i].answer # 0 /\ returned[j].answer # 0
      => returned[i].answer < returned[j].answer

(* The client's answers are its own, or late by what it gave up, and in    *)
(* order: the stream of RecvResponse carries no ids to tell them apart.    *)
AnswersAreDue == LagIsBounded /\ AnswersInOrder

(* A crash is never taken for success: a call that reports success read    *)
(* an answer that the driver made.                                         *)
SuccessWasServed ==
  \A i \in DOMAIN returned :
    returned[i].kind \in NeedsDriver /\ returned[i].outcome = "ok"
      /\ returned[i].answer = returned[i].id => returned[i].answer \in served

(* The client never waits for ever, with or without a timeout: a request is *)
(* answered or ends with the session, also when the driver crashes.         *)
RequestReturns == \A n \in 1..MaxRequests : (waiting.id = n) ~> (waiting.id # n)

(* After Disconnect the agent's process and the driver's process for the   *)
(* session end, also when they were in the middle of a request.            *)
SessionEnds == (channel = "closed") ~> (agent = "gone" /\ driver \in {"none", "gone"})

(* Nobody waits for ever: neither the client for an answer nor a session's *)
(* process for its peer.                                                   *)
NobodyWaitsForever == RequestReturns /\ SessionEnds
=============================================================================
