---------------------------- MODULE ResourceTests ----------------------------
(***************************************************************************)
(* The host-side tests of queues, memory and handles, run on the mirrors:  *)
(* testcases/host/fmq_hidl_test/VtsHalTestsMsgqV1_0HostTest.py and the     *)
(* codelabs fmq_test, hidl_memory_test and hidl_handle_test.  A test is    *)
(* the sequence of its calls, each with the result that the test asserts;  *)
(* an assertion that fails ends the test.  The HAL services under test     *)
(* (external) are modelled from what the tests ask of them; their queue    *)
(* objects are kept in the list of the session's.                          *)
(*                                                                         *)
(* Sizes are scaled: MAX_NUM_MSG and 2048 are QueueSize, 16 items are 2,   *)
(* chunks of 100 are chunks of 1, 64 rounds are 2, MEM_SIZE is MemSize.    *)
(***************************************************************************)
EXTENDS ResourceMirrors

CONSTANTS
  QueueSize,    \* MAX_NUM_MSG and 2048
  MemSize,      \* MEM_SIZE
  AnyOrder,     \* the tests of the fmq codelab are run in any order
  SetupRetries, \* _SETUP_RETRY_NUMBER
  MaxTests      \* bound: tests of a class, where any order is tried

ASSUME TestSizes == QueueSize \in Nat /\ QueueSize >= 5 /\ MemSize \in Nat /\ MemSize >= 4

VARIABLES
  cls,          \* the test class; "none" before it is loaded
  stage,        \* "setup", "idle", "test", "over"
  attempt,      \* of setUpClass
  res,          \* the session
  named,        \* the test's mirrors, by attribute name
  pending,      \* blocking reads that the queue service has been asked for
  todo,         \* calls of the test that are left, setUp's first
  ran, last,    \* number of tests run, index of the last one in the class
  broken,       \* an assertion failed
  env,          \* device: [selinux, dir]
  env0,         \* device before the class
  attrs         \* attributes of the class: [permission, created], "unset" at first

testVars == <<cls, stage, attempt, res, named, pending, todo, ran, last, broken, env, env0, attrs>>

Seqn(n) == [i \in 1..n |-> i - 1]                     \* generateSequentialData
Fill(v, n) == [i \in 1..n |-> v]
N == QueueSize
-----------------------------------------------------------------------------
(* The calls.  want is the result the test asserts, a read's with the data *)
(* it delivers; Do is a call whose result the test ignores.                *)
Call(op, m, args, want) == [op |-> op, m |-> m, args |-> args, want |-> want, asserted |-> TRUE]
Do(op, m, args) == [op |-> op, m |-> m, args |-> args, want |-> <<>>, asserted |-> FALSE]
W(m, data, want) == Call("write", m, data, <<want>>)
WB(m, data, want) == Call("writeBlocking", m, data, <<want>>)
R(m, n, want) == Call("read", m, <<n>>, <<TRUE, want>>)
RB(m, n, want) == Call("readBlocking", m, <<n>>, <<TRUE, want>>)
RFails(m, n) == Call("read", m, <<n>>, <<FALSE, <<>>>>)
RBFails(m, n) == Call("readBlocking", m, <<n>>, <<FALSE, <<>>>>)
CanWrite(m, n) == Call("availableToWrite", m, <<>>, <<n>>)
CanRead(m, n) == Call("availableToRead", m, <<>>, <<n>>)
ServerW(m, n, want) == Call("requestWrite", m, Seqn(n), <<want>>)
ServerR(m, n, want) == Call("requestRead", m, <<n>>, <<want>>)
Queue(m, type, sync, blocking) == Do("InitFmq", m, <<type, sync, blocking>>)
Reader(m, of) == Do("Attach", m, <<of>>)
Put(m, data, start) == Do("updateBytes", m, <<data, start>>)
Get(m, n, start, want) == Call("readBytes", m, <<n, start>>, <<want>>)
Tell(m, op) == Do(op, m, <<>>)                        \* update, read, commit ...

(* VtsHalTestsMsgqV1_0HostTest *)
MsgqSetUp == <<Queue("_sync_client", "uint16_t", TRUE, TRUE), Reader("sync", "_sync_client"),
               Queue("unsync", "uint16_t", FALSE, FALSE), Reader("_unsync_client1", "unsync"),
               Reader("_unsync_client2", "_unsync_client1")>>
testSyncQueueBlockingReadWriteSuccess ==
  <<Do("requestBlockingRead", "sync", <<N>>), WB("_sync_client", Seqn(N), TRUE),
    WB("_sync_client", Seqn(N), TRUE), Do("requestBlockingRead", "sync", <<N>>)>>
SmallInputReaderTest1(server, client) == <<ServerW(server, 2, TRUE), R(client, 2, Seqn(2))>>
SmallInputWriterTest1(server, client) == <<W(client, Seqn(2), TRUE), ServerR(server, 2, TRUE)>>
ReadWhenEmpty(client) == <<CanRead(client, 0), RFails(client, 2)>>
testSyncQueueWriteWhenFull ==
  <<W("_sync_client", Seqn(N), TRUE), CanWrite("_sync_client", 0), W("_sync_client", <<1>>, FALSE),
    ServerR("sync", N, TRUE)>>
LargeInputTest1(server, client) == <<ServerW(server, N, TRUE), CanRead(client, N), R(client, N, Seqn(N))>>
LargeInputTest2(server, client, n) ==
  <<CanRead(client, 0), ServerW(server, n, FALSE), CanRead(client, 0), RFails(client, 1)>>
MultipleRead(server, client) ==
  <<CanRead(client, 0), ServerW(server, 5, TRUE)>> \o [i \in 1..5 |-> R(client, 1, <<i - 1>>)]
MultipleWrite(server, client) ==
  <<CanWrite(client, N)>> \o [i \in 1..5 |-> W(client, <<i - 1>>, TRUE)] \o <<ServerR(server, 5, TRUE)>>
WrapAround(server, client) ==
  <<W(client, Seqn(N \div 2), TRUE), ServerR(server, N \div 2, TRUE),
    W(client, Seqn(N), TRUE), ServerR(server, N, TRUE)>>
testUnsyncQueueWriteWhenFull ==
  <<W("_unsync_client1", Seqn(N), TRUE), CanWrite("_unsync_client1", 0),
    W("_unsync_client1", <<1>>, TRUE), ServerR("unsync", N, FALSE)>>
testUnsyncQueueLargeInputTest3 ==
  testUnsyncQueueWriteWhenFull \o <<W("_unsync_client1", Seqn(N), TRUE), ServerR("unsync", N, TRUE)>>
testUnsyncQueueSmallInputMultipleReaderTest ==
  <<ServerW("unsync", 2, TRUE), R("_unsync_client1", 2, Seqn(2)), R("_unsync_client2", 2, Seqn(2))>>
testUnsyncQueueOverflowNotificationTest ==
  <<ServerW("unsync", N, TRUE), ServerW("unsync", N, TRUE), RFails("_unsync_client1", N),
    RFails("_unsync_client2", N), ServerW("unsync", N, TRUE), R("_unsync_client1", N, Seqn(N)),
    R("_unsync_client2", N, Seqn(N))>>
testSyncQueueSmallInputReaderTest1 == SmallInputReaderTest1("sync", "_sync_client")
testSyncQueueSmallInputWriterTest1 == SmallInputWriterTest1("sync", "_sync_client")
testSyncQueueReadWhenEmpty == ReadWhenEmpty("_sync_client")
testSyncQueueLargeInputTest1 == LargeInputTest1("sync", "_sync_client")
testSyncQueueLargeInputTest2 == LargeInputTest2("sync", "_sync_client", 2 * N)
testSyncQueueClientMultipleRead == MultipleRead("sync", "_sync_client")
testSyncQueueClientMultipleWrite == MultipleWrite("sync", "_sync_client")
testSyncQueueReadWriteWrapAround == WrapAround("sync", "_sync_client")
testUnsyncQueueSmallInputReaderTest1 == SmallInputReaderTest1("unsync", "_unsync_client1")
testUnsyncQueueSmallInputWriterTest1 == SmallInputWriterTest1("unsync", "_unsync_client1")
testUnsyncQueueReadWhenEmpty == ReadWhenEmpty("_unsync_client1")
testUnsyncQueueLargeInputTest1 == LargeInputTest1("unsync", "_unsync_client1")
testUnsyncQueueLargeInputTest2 == LargeInputTest2("unsync", "_unsync_client1", N + 1)
testUnsyncQueueClientMultipleRead == MultipleRead("unsync", "_unsync_client1")
testUnsyncQueueClientMultipleWrite == MultipleWrite("unsync", "_unsync_client1")
testUnsyncQueueReadWriteWrapAround == WrapAround("unsync", "_unsync_client1")
testSyncQueueLargeInputTest3 == testSyncQueueWriteWhenFull
MsgqTests ==
  <<testSyncQueueSmallInputReaderTest1, testSyncQueueSmallInputWriterTest1,
    testSyncQueueReadWhenEmpty, testSyncQueueLargeInputTest1, testSyncQueueLargeInputTest2,
    testSyncQueueClientMultipleRead, testSyncQueueClientMultipleWrite,
    testSyncQueueReadWriteWrapAround, testSyncQueueBlockingReadWriteSuccess,
    testSyncQueueWriteWhenFull, testSyncQueueLargeInputTest3,
    testUnsyncQueueSmallInputReaderTest1, testUnsyncQueueSmallInputWriterTest1,
    testUnsyncQueueReadWhenEmpty, testUnsyncQueueLargeInputTest1,
    testUnsyncQueueLargeInputTest2, testUnsyncQueueClientMultipleRead,
    testUnsyncQueueClientMultipleWrite, testUnsyncQueueReadWriteWrapAround,
    testUnsyncQueueWriteWhenFull, testUnsyncQueueLargeInputTest3,
    testUnsyncQueueSmallInputMultipleReaderTest, testUnsyncQueueOverflowNotificationTest>>

(* VtsCodelabFmqTest: its queues are made once, in setUpClass, and its     *)
(* tests are listed in the order of dir().                                 *)
FmqSetUpClass ==
  <<Queue("_queue1_writer", "uint16_t", TRUE, FALSE), Reader("_queue1_reader", "_queue1_writer"),
    Queue("_queue2_writer", "uint32_t", TRUE, TRUE), Reader("_queue2_reader", "_queue2_writer"),
    Queue("_queue3_writer", "double_t", FALSE, FALSE), Reader("_queue3_reader1", "_queue3_writer"),
    Reader("_queue3_reader2", "_queue3_writer"),
    Queue("_queue4_writer", "ReadParameters", TRUE, FALSE), Reader("_queue4_reader", "_queue4_writer")>>
testBasic ==
  <<Call("getQuantumSize", "_queue1_writer", <<>>, <<2>>), Call("getQuantumCount", "_queue1_writer", <<>>, <<N>>),
    CanWrite("_queue1_writer", N), CanRead("_queue1_reader", 0),
    Call("isValid", "_queue1_writer", <<>>, <<TRUE>>), Call("isValid", "_queue1_reader", <<>>, <<TRUE>>),
    Call("getQuantumCount", "_queue4_writer", <<>>, <<N>>), CanWrite("_queue4_writer", N),
    CanRead("_queue4_reader", 0), Call("isValid", "_queue4_writer", <<>>, <<TRUE>>),
    Call("isValid", "_queue4_reader", <<>>, <<TRUE>>)>>
testBlockingReadWrite == <<WB("_queue2_writer", Seqn(N), TRUE), RB("_queue2_reader", N, Seqn(N))>>
testBlockingTimeout == <<RBFails("_queue2_reader", 5)>>
FmqSimpleReadWrite == <<W("_queue1_writer", Seqn(N), TRUE), R("_queue1_reader", N, Seqn(N))>>
testConsecutiveReadWrite == FmqSimpleReadWrite \o FmqSimpleReadWrite \o <<CanRead("_queue1_reader", 0)>>
testIllegalBlocking == <<WB("_queue3_writer", Seqn(N), FALSE)>>
testReadEmpty == <<RFails("_queue1_reader", 5)>>
testSimpleReadWriteStructType ==
  <<Call("writeMessages", "_queue4_writer", Seqn(3), <<TRUE>>), R("_queue4_reader", 3, Seqn(3))>>
testUnsynchronizedReadWrite ==
  <<W("_queue3_writer", Seqn(N), TRUE), R("_queue3_reader1", N, Seqn(N)), R("_queue3_reader2", N, Seqn(N))>>
testWriteFull == <<W("_queue1_writer", Seqn(N), TRUE), W("_queue1_writer", Seqn(N), FALSE)>>
testWriteTooLarge == <<W("_queue1_writer", Seqn(N + 1), FALSE)>>
FmqTests ==
  <<testBasic, testBlockingReadWrite, testBlockingTimeout, testConsecutiveReadWrite,
    testIllegalBlocking, testReadEmpty, FmqSimpleReadWrite, testSimpleReadWriteStructType,
    testUnsynchronizedReadWrite, testWriteFull, testWriteTooLarge>>

(* VtsCodelabHidlMemoryTest *)
Half == MemSize \div 2
testGetSize == <<Call("getSize", "_mem_obj", <<>>, <<MemSize>>)>>
testSimpleWriteRead ==
  <<Tell("_mem_obj", "update"), Put("_mem_obj", <<7, 8>>, 0), Tell("_mem_obj", "commit"),
    Tell("_mem_obj", "readMemory"), Get("_mem_obj", 2, 0, <<7, 8>>)>>
Chunk(i) ==
  <<Tell("_mem_obj", "updateRange"), Put("_mem_obj", <<i, i + 1>>, i), Tell("_mem_obj", "commit"),
    Tell("_mem_obj", "readRange"), Get("_mem_obj", 2, i, <<i, i + 1>>)>>
testLargeWriteRead == Chunk(0) \o Chunk(1) \o Chunk(2)
testWriteTwoRegionsInOneBuffer ==
  <<Tell("_mem_obj", "updateRange"), Tell("_mem_obj", "updateRange"), Put("_mem_obj", <<5, 6>>, Half),
    Tell("_mem_obj", "commit"), Tell("_mem_obj", "readMemory"), Get("_mem_obj", 2, Half, <<5, 6>>),
    Tell("_mem_obj", "commit"), Put("_mem_obj", <<3>>, 0), Tell("_mem_obj", "commit"),
    Tell("_mem_obj", "readMemory"), Get("_mem_obj", 1, 0, <<3>>), Tell("_mem_obj", "commit")>>
testSharedMemory ==
  <<Tell("_mem_obj", "update"), Put("_mem_obj", Fill(0, MemSize), 0), Tell("_mem_obj", "commit"),
    Do("fillMemory", "_mem_obj", <<42>>), Tell("_mem_obj", "readMemory"),
    Get("_mem_obj", MemSize, 0, Fill(42, MemSize)), Tell("_mem_obj", "commit")>>
testSameMemoryDifferentId ==
  <<Call("haveSomeMemory", "memory_client2", <<"_mem_obj">>, <<TRUE>>), Do("fillMemory", "_mem_obj", <<50>>),
    Tell("_mem_obj", "readMemory"), Get("_mem_obj", MemSize, 0, Fill(50, MemSize)), Tell("_mem_obj", "commit"),
    Tell("memory_client2", "readMemory"), Get("memory_client2", MemSize, 0, Fill(50, MemSize)),
    Tell("memory_client2", "commit")>>
MemoryTests == <<testGetSize, testLargeWriteRead, testSameMemoryDifferentId, testSharedMemory,
                 testSimpleWriteRead, testWriteTwoRegionsInOneBuffer>>

(* VtsCodelabHidlHandleTest *)
HandleSetUp == <<Call("open", "_writer", <<"test.txt", "w+">>, <<TRUE>>), Call("open", "_reader", <<"test.txt", "r">>, <<TRUE>>)>>
testInvalidWrite == <<Call("writeFile", "_reader", <<1, 2>>, <<>>)>>
testOpenNonexistingFile == <<Call("open", "failed_reader", <<"abc.txt", "r">>, <<FALSE>>)>>
Exchange == <<Call("writeFile", "_writer", <<1, 2>>, <<2>>), Call("readFile", "_reader", <<2>>, <<<<1, 2>>>>)>>
testLargeReadWrite == Exchange \o Exchange
testHidlHandleArgument == <<Do("dumpstateBoard", "_writer", <<>>), Call("readFile", "_reader", <<1>>, <<<<9>>>>)>>
HandleTests == <<testHidlHandleArgument, testInvalidWrite, testLargeReadWrite, testOpenNonexistingFile, Exchange>>
-----------------------------------------------------------------------------
(* Calls that make a mirror, or a queue object of a service: the session   *)
(* they leave and the mirror; id -1 when there is none.                    *)
Making == {"InitFmq", "Attach", "allocate", "haveSomeMemory", "open"}
Made(d, c) ==
  LET of == named[c.args[1]]
  IN  CASE c.op = "InitFmq" ->
             LET a == _create(d, -1, N, c.args[3], TRUE)
             IN  [d |-> a.d, m |-> FmqMirror(c.args[1], c.args[2], a.r[1])]
        [] c.op = "Attach" ->
             LET a == _create(d, of.id, 0, FALSE, TRUE) IN [d |-> a.d, m |-> FmqMirror(of.type, of.sync, a.r[1])]
        [] c.op = "allocate" -> LET a == _allocate(d, MemSize) IN [d |-> a.d, m |-> MemoryMirror(a.r[1])]
        [] c.op = "haveSomeMemory" ->
             [d |-> [d EXCEPT !.mem = Append(@, d.mem[of.id + 1])], m |-> MemoryMirror(Len(d.mem))]
        [] c.op = "open" ->
             LET a == _createHandleForSingleFile(d, c.args[1], c.args[2])
             IN  [d |-> a.d, m |-> HandleMirror(a.r[1])]

(* The other calls, with the services' own writes and reads. *)
Result(d, c) ==
  LET m == named[c.m]
      both(a) == [d |-> a.d, r |-> a.r \o <<a.data>>]
      served(a) == [d |-> a.d, r |-> <<a.r = <<TRUE>> /\ a.data = Seqn(c.args[1])>>]
  IN  CASE c.op = "write" -> write(d, m, c.args, Len(c.args), FALSE)
        [] c.op = "writeMessages" -> write(d, m, c.args, Len(c.args), TRUE)
        [] c.op = "writeBlocking" -> writeBlocking(d, m, c.args, Len(c.args))
        [] c.op = "read" -> both(read(d, m, c.args[1], <<>>))
        [] c.op = "readBlocking" -> both(readBlocking(d, m, c.args[1], <<>>))
        [] c.op = "availableToWrite" -> availableToWrite(d, m)
        [] c.op = "availableToRead" -> availableToRead(d, m)
        [] c.op = "getQuantumSize" -> getQuantumSize(d, m)
        [] c.op = "getQuantumCount" -> getQuantumCount(d, m)
        [] c.op = "isValid" -> isValid(d, m)
        [] c.op = "requestWrite" -> RingWrite(d, m, c.args)
        [] c.op = "requestRead" -> served(RingRead(d, m, c.args[1]))
        [] c.op = "requestBlockingRead" -> Ret(d, <<>>)
        [] c.op = "readMemory" -> readMemory(d, m)
        [] c.op = "readRange" -> readRange(d, m)
        [] c.op = "update" -> update(d, m)
        [] c.op = "updateRange" -> updateRange(d, m)
        [] c.op = "commit" -> commit(d, m)
        [] c.op = "updateBytes" -> updateBytes(d, m, c.args[1], Len(c.args[1]), c.args[2])
        [] c.op = "readBytes" -> readBytes(d, m, c.args[1], c.args[2])
        [] c.op = "getSize" -> getSize(d, m)
        [] c.op = "fillMemory" -> updateBytes(d, m, Fill(c.args[1], MemSize), MemSize, 0)
        [] c.op = "writeFile" -> writeFile(d, m, c.args)
        [] c.op = "readFile" -> readFile(d, m, c.args[1])
        [] c.op = "dumpstateBoard" -> writeFile(d, m, <<9>>)
-----------------------------------------------------------------------------
Classes == {"msgq", "fmq", "memory", "handle"}
Tests == CASE cls = "msgq" -> MsgqTests [] cls = "fmq" -> FmqTests
           [] cls = "memory" -> MemoryTests [] cls = "handle" -> HandleTests
SetUpOf == CASE cls = "msgq" -> MsgqSetUp [] cls = "handle" -> HandleSetUp [] OTHER -> <<>>
InOrder == cls = "fmq" /\ ~AnyOrder

TestsInit ==
  /\ cls = "none" /\ stage = "setup" /\ attempt = 1 /\ res = NoSession /\ named = [n \in {} |-> MemoryMirror(0)]
  /\ pending = <<>> /\ todo = <<>> /\ ran = 0 /\ last = 0 /\ broken = FALSE
  /\ env = [selinux |-> "Enforcing", dir |-> FALSE] /\ env0 = env
  /\ attrs = [permission |-> "unset", created |-> FALSE]

LoadClass ==
  /\ cls = "none" /\ cls' \in Classes
  /\ env' \in [selinux : {"Enforcing", "Permissive"}, dir : BOOLEAN] /\ env0' = env'
  /\ cls' # "handle" => env' = env
  /\ UNCHANGED <<stage, attempt, res, named, pending, todo, ran, last, broken, attrs>>

(* tearDownClass of the handle test: the directory goes when the class     *)
(* made it, SELinux goes back to what getenforce said.                     *)
tearDownClass(e, a) ==
  [selinux |-> IF a.permission = "Enforcing" THEN "Enforcing" ELSE e.selinux,
   dir |-> IF a.created THEN FALSE ELSE e.dir]

(* setUpClass returned False: it is tried again with restarted services.   *)
SetUpFails(e, a) ==
  /\ IF attempt < SetupRetries
     THEN attempt' = attempt + 1 /\ env' = e /\ UNCHANGED stage
     ELSE stage' = "over" /\ env' = tearDownClass(e, a) /\ UNCHANGED attempt
  /\ attrs' = a
  /\ UNCHANGED <<res, named, todo>>

SetUpDone(e, a, calls) ==
  /\ stage' = "test" /\ env' = e /\ attrs' = a /\ todo' = calls
  /\ UNCHANGED <<attempt, res, named>>

(* The service is looked for up to MAX_RETRY times. *)
ServiceStarts == cls # "fmq"
setUpClassFails == ServiceStarts /\ SetUpFails(env, attrs)

(* setUpClass of the handle test: it asks for the SELinux mode and makes   *)
(* it permissive, then makes the directory unless it is there, which fails *)
(* or not.                                                                 *)
setUpClassHandle ==
  LET e == [env EXCEPT !.selinux = "Permissive"]
      a == [attrs EXCEPT !.permission = env.selinux, !.created = FALSE]
  IN  \/ env.dir /\ SetUpDone(e, a, <<>>)
      \/ ~env.dir /\ SetUpDone([e EXCEPT !.dir = TRUE], [a EXCEPT !.created = TRUE], <<>>)
      \/ ~env.dir /\ SetUpFails(e, a)

SetUpClass ==
  /\ stage = "setup" /\ cls # "none"
  /\ \/ setUpClassFails
     \/ cls = "handle" /\ setUpClassHandle
     \/ cls \notin {"handle"} /\ SetUpDone(env, attrs, IF cls = "fmq" THEN FmqSetUpClass
                                     ELSE IF cls = "memory" THEN <<Do("allocate", "_mem_obj", <<>>)>> ELSE <<>>)
  /\ UNCHANGED <<cls, pending, ran, last, broken, env0>>

(* The tests of a class are independent, or so the test list on the        *)
(* command line lets one assume; those of the fmq codelab share queues and *)
(* run in the order of their names.                                        *)
StartTest(k) ==
  /\ stage = "idle"
  /\ IF InOrder THEN k > last ELSE ran < MaxTests
  /\ stage' = "test" /\ ran' = ran + 1 /\ last' = k /\ todo' = SetUpOf \o Tests[k]
  /\ pending' = <<>>
  /\ UNCHANGED <<cls, attempt, res, named, broken, env, env0, attrs>>

(* A blocking write waits for the service's blocking read. *)
Waits(c) == /\ c.op = "writeBlocking" /\ pending # <<>> /\ MayBlock(res, named[c.m])
            /\ Len(c.args) > RoomToWrite(res, named[c.m])

Step ==
  LET c == Head(todo)
      a == Result(res, c)
  IN  /\ stage = "test" /\ todo # <<>> /\ c.op \notin Making /\ ~Waits(c)
      /\ res' = a.d
      /\ broken' = (broken \/ (c.asserted /\ a.r # c.want))
      /\ pending' = IF c.op = "requestBlockingRead" THEN Append(pending, c.args[1]) ELSE pending
      /\ todo' = IF broken' THEN <<>> ELSE Tail(todo)
      /\ UNCHANGED <<cls, stage, attempt, named, ran, last, env, env0, attrs>>

MakeMirror ==
  LET c == Head(todo)
      a == Made(res, c)
  IN  /\ stage = "test" /\ todo # <<>> /\ c.op \in Making
      /\ res' = a.d
      /\ named' = IF a.m.id = -1 THEN named ELSE [n \in DOMAIN named \cup {c.m} |-> IF n = c.m THEN a.m ELSE named[n]]
      /\ broken' = (broken \/ (c.asserted /\ c.want # <<a.m.id # -1>>))
      /\ todo' = IF broken' THEN <<>> ELSE Tail(todo)
      /\ UNCHANGED <<cls, stage, attempt, pending, ran, last, env, env0, attrs>>

(* The service's thread reads once there are enough items. *)
ServerReads ==
  LET a == RingRead(res, named["sync"], pending[1])
  IN  /\ pending # <<>> /\ a.r = <<TRUE>>
      /\ res' = a.d /\ pending' = Tail(pending)
      /\ UNCHANGED <<cls, stage, attempt, named, todo, ran, last, broken, env, env0, attrs>>

(* tearDown: the handle test cleans its tracker up. *)
tearDown ==
  /\ stage = "test" /\ todo = <<>>
  /\ stage' = "idle"
  /\ res' = IF cls = "handle" THEN CleanUpHandles(res) ELSE res
  /\ UNCHANGED <<cls, attempt, named, pending, todo, ran, last, broken, env, env0, attrs>>

EndClass ==
  /\ stage = "idle" /\ stage' = "over"
  /\ env' = IF cls = "handle" THEN tearDownClass(env, attrs) ELSE env
  /\ UNCHANGED <<cls, attempt, res, named, pending, todo, ran, last, broken, env0, attrs>>

TestsNext == \/ LoadClass \/ SetUpClass \/ Step \/ MakeMirror \/ ServerReads \/ tearDown \/ EndClass
             \/ \E k \in 1..23 : cls # "none" /\ k \in DOMAIN Tests /\ StartTest(k)
TestsSpec == TestsInit /\ [][TestsNext]_testVars
-----------------------------------------------------------------------------

(* The assertions of the queue, memory and handle tests hold for what the  *)
(* mirrors' methods do, in every order of two tests of a class and in any  *)
(* selection of the fmq codelab's tests that keeps their order: what one   *)
(* test leaves in the session does not fail another one.                   *)
TestsPass == ~broken

(* tearDownClass of the handle test gives the device back as setUpClass    *)
(* found it, SELinux mode and directory, unless setUpClass was repeated    *)
(* after it had changed the mode.                                          *)
EnvironmentRestored == stage = "over" /\ attempt = 1 => env = env0

(* The tests of queues, regions and handles hold and leave no trace. *)
TestsHold == TestsPass /\ EnvironmentRestored

(* "We will recover SELinux permission during tearDown of this class."     *)
PermissionRecovered == stage = "over" => env.selinux = env0.selinux
=============================================================================
