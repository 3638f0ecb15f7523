------------------------------- MODULE MCTask -------------------------------
(***************************************************************************)
(* Three application tasks, two of them sharing the top priority, in an    *)
(* address space of 256 bytes with two-byte words: shared data, with all   *)
(* stacks, at 80..127, which needs the window 64..127, and private data    *)
(* behind it at 144..167.                                                  *)
(***************************************************************************)
EXTENDS Kernel, TLC

MCPriority == [i \in 0 .. 4 |-> CASE i = 0 -> 1 [] i = 4 -> 0 [] i = 3 -> 3
                                  [] OTHER -> 2]
MCSuspendTarget == ApplicationTask \cup {idle_index, JRT_TASK_ID_SELF}

MCPrivateSection == [start |-> 144, end |-> 168]
MCSharedSection == [start |-> 80, end |-> 128]

Stack(guard, buffer, words) ==
    [stack_guard |-> guard, stack_buffer |-> buffer, stack_words |-> words]
Private(base, size) ==
    [private_data_base |-> base, private_data_size |-> size]

MCKernelStorage ==
    [i \in {3, 4} |-> Stack(80 + 8 * i, 84 + 8 * i, 2) @@ Private(0, 0) @@
                      [unprivileged |-> 0]]

GoodStack == [i \in ApplicationTask |-> Stack(80 + 8 * i, 84 + 8 * i, 2)]

\* What one task's stack may look like: sound or not, apart from the others
\* or not, up to and beyond the end of the address space.
AnyStack == {Stack(120, 124, 2), Stack(0, 4, 2), Stack(252, 0, 2),
             Stack(98, 102, 2), Stack(96, 100, 0), Stack(96, 100, 3),
             Stack(96, 104, 2), Stack(96, 100, 128), Stack(240, 244, 4),
             Stack(240, 244, 6), Stack(240, 244, 8), Stack(84, 88, 2),
             Stack(76, 80, 4), Stack(92, 96, 4), Stack(76, 80, 22),
             Stack(160, 164, 2)}

AnyPrivate == {Private(0, 0), Private(152, 8), Private(160, 8),
               Private(144, 16), Private(160, 16), Private(0, 8),
               Private(152, 0), Private(156, 8), Private(152, 12),
               Private(152, 2), Private(140, 4), Private(164, 4),
               Private(168, 4), Private(80, 4), Private(116, 4),
               Private(248, 8)}

Layout(stack, private, unprivileged) ==
    [i \in ApplicationTask |->
        stack[i] @@ private[i] @@
        [entry |-> "entry", priority |-> MCPriority[i],
         unprivileged |-> unprivileged[i]]]

All(x) == [i \in ApplicationTask |-> x]
TwoPrivate == [All(Private(0, 0)) EXCEPT ![0] = Private(144, 4),
                                         ![1] = Private(152, 8)]
GoodConfig == Layout(GoodStack, TwoPrivate, [All(1) EXCEPT ![2] = 0])

MCCandidate ==
    {Layout([GoodStack EXCEPT ![i] = s], [TwoPrivate EXCEPT ![2] = p], All(1)) :
        s \in AnyStack, i \in {0, 2}, p \in AnyPrivate}
    \cup {Layout(GoodStack, [TwoPrivate EXCEPT ![0] = p, ![2] = q],
                 [All(1) EXCEPT ![2] = u]) :
             p \in AnyPrivate, q \in AnyPrivate, u \in {0, 1}}
    \cup {[GoodConfig EXCEPT ![1].entry = NULL],
          [GoodConfig EXCEPT ![1].priority = JRT_MAX_TASK_PRIORITY + 1],
          [i \in 0 .. JRT_MAX_APPLICATION_TASKS |-> GoodConfig[0]],
          [i \in {} |-> GoodConfig[0]], NULL}

\* Two that are accepted, two that are not.
MCConfig ==
    {GoodConfig,
     Layout(GoodStack, [TwoPrivate EXCEPT ![2] = Private(160, 8)], All(1)),
     Layout(GoodStack, All(Private(152, 8)), All(1)), NULL}

\* Every boundary of a machine with bytes for words.
MCByte == 0 .. 255
MCTickRate == {1, 2, 3, 9, 10, 11, 25, 99, 100, 101, 127, 128, 250, 254, 255}
MCClock == {0, 1, 2, 15, 16, 100, 254, 255}
=============================================================================
