--------------------------- MODULE Offload_proofs ---------------------------
(***************************************************************************)
(* The host's loop over the kernel implements the loop of the encoder, for *)
(* any chunks, as far as it comes: the concurrency of host and device does *)
(* not show.  At a chunk longer than lzw_s1 the host overruns the buffer,  *)
(* and nothing is claimed of what follows.                                 *)
(***************************************************************************)
EXTENDS Offload, TLAPS

\* The host is at no chunk, or has overrun its buffer with one.
Idle == at \in {"fill", "overrun"}

\* Where the host is determines what it has enqueued; what is complete of that is
\* what is no longer in the queue.
Protocol ==
  \/ Idle /\ queue = << >>
  \/ at = "write" /\ queue = << >> /\ complete = {}
  \/ at = "exec" /\ \/ queue = <<"write">> /\ complete = {}
                    \/ queue = << >> /\ complete = {"write"}
  \/ at = "read" /\ \/ queue = <<"write", "exec">> /\ complete = {}
                    \/ queue = <<"exec">> /\ complete = {"write"}
                    \/ queue = << >> /\ complete = {"write", "exec"}
  \/ at = "finish" /\ \/ queue = <<"write", "exec", "read">> /\ complete = {}
                      \/ queue = <<"exec", "read">> /\ complete = {"write"}
                      \/ queue = <<"read">> /\ complete = {"write", "exec"}
                      \/ queue = << >> /\ complete = {"write", "exec", "read"}

TableOK == /\ chunk_count \in Nat
           /\ chunks \in [Number -> Content]
           /\ dup_flag \in [Number -> {0, 1}]
           /\ dup_index \in [Number -> Number]

\* The chunk is in the host's buffers.
Loaded == /\ i \in Number
          /\ host_in.is_dup = dup_flag[i] /\ host_in.dup_index = dup_index[i]
          /\ host_in.length = Len(chunks[i])
          /\ SubSeq(host_in.s1, 1, host_in.length) = chunks[i]
          /\ Len(chunks[i]) <= BufferSize

\* What the kernel is to answer for the chunk.
Answer == IF dup_flag[i] = 1 THEN Loop!Duplicate(dup_index[i])
          ELSE IF chunks[i] \notin Overflowing THEN Loop!Text(chunks[i])
          ELSE LastBare

IsSequence(s) == \E S : s \in Seq(S)

HostInv == /\ TableOK
           /\ Protocol
           /\ i \in Nat
           /\ IsSequence(out_buffer)
           /\ host_in.s1 \in [1 .. BufferSize -> Letter \cup {Garbage}]
           /\ ~ Idle => Loaded
           /\ "write" \in complete => device_in = host_in
           /\ "read" \in complete => host_out = device_out
           /\ Idle \/ "exec" \notin complete => Bare(device_out) = LastBare
           /\ ~ Idle /\ "exec" \in complete => Bare(device_out) = Answer

\* What the device takes next, by the commands left.
LEMMA Heads ==
  /\ Head(<<"write">>) = "write" /\ Tail(<<"write">>) = << >>
  /\ Head(<<"exec">>) = "exec" /\ Tail(<<"exec">>) = << >>
  /\ Head(<<"read">>) = "read" /\ Tail(<<"read">>) = << >>
  /\ Head(<<"write", "exec">>) = "write" /\ Tail(<<"write", "exec">>) = <<"exec">>
  /\ Head(<<"exec", "read">>) = "exec" /\ Tail(<<"exec", "read">>) = <<"read">>
  /\ Head(<<"write", "exec", "read">>) = "write"
  /\ Tail(<<"write", "exec", "read">>) = <<"exec", "read">>
OBVIOUS

\* A pair, appended.
LEMMA AppendOne ==
  ASSUME NEW S, NEW a \in S, NEW b \in S PROVE Append(<<a>>, b) = <<a, b>>
<1> DEFINE s == Append(<<a>>, b)
<1>1. <<a>> \in Seq(S) /\ Len(<<a>>) = 1 /\ <<a>>[1] = a
  OBVIOUS
<1>2. s \in Seq(S) /\ Len(s) = 2 /\ s[1] = a /\ s[2] = b
  BY <1>1
<1> HIDE DEF s
<1>3. s = <<s[1], s[2]>>
  BY <1>2
<1> QED
  BY <1>2, <1>3 DEF s

\* A triple, appended.
LEMMA AppendTwo ==
  ASSUME NEW S, NEW a \in S, NEW b \in S, NEW c \in S
  PROVE  Append(<<a, b>>, c) = <<a, b, c>>
<1> DEFINE s == Append(<<a, b>>, c)
<1>1. <<a, b>> \in Seq(S) /\ Len(<<a, b>>) = 2 /\ <<a, b>>[1] = a /\ <<a, b>>[2] = b
  OBVIOUS
<1>2. s \in Seq(S) /\ Len(s) = 3 /\ s[1] = a /\ s[2] = b /\ s[3] = c
  BY <1>1
<1> HIDE DEF s
<1>3. s = <<s[1], s[2], s[3]>>
  BY <1>2
<1> QED
  BY <1>2, <1>3 DEF s

\* What the queue is after each command is enqueued.
LEMMA Appends ==
  /\ Append(<< >>, "write") = <<"write">>
  /\ Append(<< >>, "exec") = <<"exec">> /\ Append(<< >>, "read") = <<"read">>
  /\ Append(<<"write">>, "exec") = <<"write", "exec">>
  /\ Append(<<"write", "exec">>, "read") = <<"write", "exec", "read">>
  /\ Append(<<"exec">>, "read") = <<"exec", "read">>
<1>1. "write" \in Command /\ "exec" \in Command /\ "read" \in Command
  BY DEF Command
<1>2. /\ Append(<< >>, "write") = <<"write">>
      /\ Append(<< >>, "exec") = <<"exec">> /\ Append(<< >>, "read") = <<"read">>
  OBVIOUS
<1>3. /\ Append(<<"write">>, "exec") = <<"write", "exec">>
      /\ Append(<<"exec">>, "read") = <<"exec", "read">>
  BY <1>1, AppendOne
<1>4. Append(<<"write", "exec">>, "read") = <<"write", "exec", "read">>
  BY <1>1, AppendTwo
<1> QED
  BY <1>2, <1>3, <1>4

\* Appending to a sequence of any elements: what it keeps and what it adds.
LEMMA AppendSequence ==
  ASSUME NEW s, NEW e, IsSequence(s)
  PROVE  /\ IsSequence(Append(s, e)) /\ Append(s, e) # << >>
         /\ Len(s) \in Nat /\ Len(Append(s, e)) = Len(s) + 1
         /\ Last(Append(s, e)) = e
         /\ \A n \in 1 .. Len(s) : Append(s, e)[n] = s[n]
<1>1. PICK S : s \in Seq(S)
  BY DEF IsSequence
<1>2. s \in Seq(S \cup {e})
  BY <1>1
<1>3. /\ Append(s, e) \in Seq(S \cup {e}) /\ Len(Append(s, e)) = Len(s) + 1
      /\ Append(s, e)[Len(s) + 1] = e
      /\ \A n \in 1 .. Len(s) : Append(s, e)[n] = s[n]
      /\ Len(s) \in Nat
  BY <1>2
<1>4. Append(s, e) # << >>
  BY <1>3
<1> QED
  BY <1>3, <1>4 DEF IsSequence, Last

\* A chunk copied to the front of the buffer is what the kernel reads of it.
LEMMA CopiedIn ==
  ASSUME NEW c \in Content, Len(c) <= BufferSize,
         NEW s1 \in [1 .. BufferSize -> Letter \cup {Garbage}],
         \A u \in 1 .. Len(c) : s1[u] = c[u]
  PROVE  SubSeq(s1, 1, Len(c)) = c
<1>1. c \in Seq(Letter) /\ Len(c) \in 1 .. BufferSize /\ BufferSize \in Nat
  BY OffloadAssumption
<1>2. s1 \in Seq(Letter \cup {Garbage}) /\ Len(s1) = BufferSize
  BY <1>1
<1>3. /\ SubSeq(s1, 1, Len(c)) \in Seq(Letter \cup {Garbage})
      /\ Len(SubSeq(s1, 1, Len(c))) = Len(c)
      /\ \A u \in 1 .. Len(c) : SubSeq(s1, 1, Len(c))[u] = s1[u]
  BY <1>1, <1>2
<1>4. c \in Seq(Letter \cup {Garbage})
  BY <1>1
<1> QED
  BY <1>3, <1>4

-----------------------------------------------------------------------------
\* Before the first chunk nothing is enqueued.
LEMMA InitHolds == Init => HostInv
<1> SUFFICES ASSUME Init PROVE HostInv
  OBVIOUS
<1>1. TableOK
  BY OffloadAssumption DEF Init, TableOK, Number
<1>2. IsSequence(out_buffer)
  <2>1. out_buffer \in Seq({})
    BY DEF Init
  <2> QED
    BY <2>1 DEF IsSequence
<1>3. Bare(device_out) = LastBare
  BY DEF Init, Bare, LastBare
<1> QED
  BY <1>1, <1>2, <1>3 DEF Init, HostInv, Protocol, Idle

\* What a step leaves alone stays as the invariant says.
LEMMA FillStep == ASSUME HostInv, Fill PROVE HostInv'
<1>1. i \in Number /\ i' = i /\ UNCHANGED table
  BY DEF Fill, Loops, HostInv, TableOK, Number
<1>2. TableOK' /\ Number' = Number
  BY <1>1 DEF HostInv, TableOK, Number, table
<1>3. chunks[i] \in Content /\ dup_flag[i] \in {0, 1} /\ dup_index[i] \in Number
  BY <1>1 DEF HostInv, TableOK
<1>4. chunks[i] \in Seq(Letter) /\ Len(chunks[i]) \in 1 .. BufferSize /\ BufferSize \in Nat
  BY <1>3, OffloadAssumption DEF Fill
<1>5. \A u \in 1 .. Len(chunks[i]) : chunks[i][u] \in Letter
  BY <1>4
<1>6. /\ lzw_s1 \in [1 .. BufferSize -> Letter \cup {Garbage}]
      /\ \A u \in 1 .. Len(chunks[i]) : lzw_s1[u] = chunks[i][u]
  BY <1>4, <1>5 DEF HostInv, lzw_s1
<1>7. SubSeq(lzw_s1, 1, Len(chunks[i])) = chunks[i]
  BY <1>3, <1>4, <1>6, CopiedIn
<1>8. /\ host_in'.s1 = lzw_s1 /\ host_in'.length = Len(chunks[i])
      /\ host_in'.is_dup = dup_flag[i] /\ host_in'.dup_index = dup_index[i]
  BY DEF Fill, lzw_length
<1>9. Loaded'
  BY <1>1, <1>2, <1>4, <1>7, <1>8 DEF Loaded, table
<1>10. Protocol'
  BY DEF Fill, HostInv, Protocol
<1>11. complete' = {} /\ UNCHANGED <<device_out, out_buffer>> /\ Idle /\ ~ Idle'
  BY DEF Fill, Idle
<1>12. LastBare' = LastBare /\ Bare(device_out)' = Bare(device_out)
  BY <1>11 DEF LastBare, Bare
<1> QED
  BY <1>1, <1>2, <1>6, <1>8, <1>9, <1>10, <1>11, <1>12 DEF HostInv, IsSequence

\* After an overrun nothing more is claimed than before.
LEMMA OverrunStep == ASSUME HostInv, FillOverruns PROVE HostInv'
<1>1. /\ UNCHANGED <<chunk_count, chunks, dup_flag, dup_index, i, host_in, host_out, device_in,
                     device_out, queue, complete, out_buffer>>
      /\ Idle /\ Idle' /\ queue = << >>
  BY DEF FillOverruns, table, device, Idle, HostInv, Protocol
<1>2. LastBare' = LastBare /\ Bare(device_out)' = Bare(device_out)
  BY <1>1 DEF LastBare, Bare
<1> QED
  BY <1>1, <1>2 DEF HostInv, TableOK, Number, Protocol, IsSequence

\* Steps that leave the host's buffers and the table alone.
LEMMA Kept ==
  ASSUME HostInv, UNCHANGED <<table, i, host_in, out_buffer>>, ~ Idle, ~ Idle'
  PROVE  /\ TableOK' /\ i' \in Nat /\ IsSequence(out_buffer)'
         /\ host_in'.s1 \in [1 .. BufferSize -> Letter \cup {Garbage}]
         /\ Loaded' /\ LastBare' = LastBare /\ Answer' = Answer
<1>1. TableOK' /\ Number' = Number
  BY DEF HostInv, TableOK, Number, table
<1>2. Loaded'
  BY <1>1 DEF HostInv, Loaded, table
<1>3. LastBare' = LastBare
  BY DEF LastBare, Bare
<1>4. Answer' = Answer
  BY <1>3 DEF Answer, Loop!Duplicate, Loop!Text, table
<1> QED
  BY <1>1, <1>2, <1>3, <1>4 DEF HostInv, IsSequence

\* Enqueueing a command moves the host on and leaves the buffers alone.
LEMMA EnqueueStep == ASSUME HostInv, EnqueueCommand PROVE HostInv'
<1>1. /\ UNCHANGED <<table, i, host_in, host_out, device_in, device_out, complete, out_buffer>>
      /\ ~ Idle /\ ~ Idle'
  BY DEF EnqueueCommand, Enqueue, Idle
<1>2. Protocol'
  <2>1. CASE Enqueue("write", "exec")
    BY <2>1, Appends DEF HostInv, Protocol, Idle, Enqueue
  <2>2. CASE Enqueue("exec", "read")
    BY <2>2, Appends DEF HostInv, Protocol, Idle, Enqueue
  <2>3. CASE Enqueue("read", "finish")
    BY <2>3, Appends DEF HostInv, Protocol, Idle, Enqueue
  <2> QED
    BY <2>1, <2>2, <2>3 DEF EnqueueCommand
<1>3. Bare(device_out)' = Bare(device_out)
  BY <1>1 DEF Bare
<1> QED
  BY <1>1, <1>2, <1>3, Kept DEF HostInv

\* What is left of the device's steps when the queue and the events are seen to.
LEMMA DeviceKept ==
  ASSUME HostInv, NEW c \in Command, Run(c)
  PROVE  /\ UNCHANGED <<table, i, at, host_in, out_buffer>>
         /\ ~ Idle /\ ~ Idle' /\ Protocol' /\ c \notin complete
         /\ complete' = complete \cup {c}
         /\ waits(c) \subseteq complete
         /\ c = "write" => complete = {}
         /\ c = "exec" => complete = {"write"}
         /\ c = "read" => complete = {"write", "exec"}
<1>1. CASE c = "write"
  BY <1>1, Heads DEF HostInv, Protocol, Idle, Run
<1>2. CASE c = "exec"
  BY <1>2, Heads DEF HostInv, Protocol, Idle, Run
<1>3. CASE c = "read"
  BY <1>3, Heads DEF HostInv, Protocol, Idle, Run
<1> QED
  BY <1>1, <1>2, <1>3 DEF Command, Run

\* The input is migrated from a buffer the host has loaded and does not touch.
LEMMA MigrateInStep == ASSUME HostInv, MigrateIn PROVE HostInv'
<1>1. Run("write") /\ "write" \in Command
  BY DEF MigrateIn, Command
<1>2. device_in' = host_in /\ UNCHANGED <<host_out, device_out>>
  BY DEF MigrateIn
<1>3. Bare(device_out)' = Bare(device_out)
  BY <1>2 DEF Bare
<1> QED
  BY <1>1, <1>2, <1>3, DeviceKept, Kept DEF HostInv

\* The output is migrated after the kernel has run.
LEMMA MigrateOutStep == ASSUME HostInv, MigrateOut PROVE HostInv'
<1>1. Run("read") /\ "read" \in Command
  BY DEF MigrateOut, Command
<1>2. host_out' = device_out /\ UNCHANGED <<device_in, device_out>>
  BY DEF MigrateOut
<1>3. Bare(device_out)' = Bare(device_out)
  BY <1>2 DEF Bare
<1> QED
  BY <1>1, <1>2, <1>3, DeviceKept, Kept DEF HostInv

\* A chunk with the byte behind it makes a record.
LEMMA TextRecord ==
  ASSUME NEW c \in Seq(Letter \cup {Garbage}), NEW b \in Letter \cup {Garbage}
  PROVE  [dup |-> FALSE, text |-> c, tail |-> b] \in Record
<1> DEFINE Texts == [dup : {FALSE}, text : Seq(Letter \cup {Garbage}),
                     tail : Letter \cup {Garbage}]
<1>1. [dup |-> FALSE, text |-> c, tail |-> b] \in Texts
  OBVIOUS
<1> QED
  BY <1>1, Zenon DEF Record

\* The kernel's answer is the one of the chunk the host is at.
LEMMA KernelAnswers ==
  ASSUME HostInv, ~ Idle, device_in = host_in, Bare(device_out) = LastBare
  PROVE  Bare(temp_out_buffer) = Answer
<1>1. /\ i \in Number /\ chunks[i] \in Content
      /\ dup_flag[i] \in {0, 1} /\ dup_index[i] \in Nat
  BY DEF HostInv, Loaded, TableOK, Number
<1>2. /\ device_in.is_dup = dup_flag[i] /\ device_in.dup_index = dup_index[i]
      /\ device_in.length = Len(chunks[i])
      /\ SubSeq(device_in.s1, 1, device_in.length) = chunks[i]
      /\ device_in.s1 \in [1 .. BufferSize -> Letter \cup {Garbage}]
  BY DEF HostInv, Loaded
<1>3. chunks[i] \in Seq(Letter) /\ Len(chunks[i]) \in 1 .. BufferSize /\ BufferSize \in Nat
  BY <1>1, OffloadAssumption DEF HostInv, Loaded
<1>4. Compressed.text = chunks[i] /\ Compressed.dup = FALSE
  BY <1>2 DEF Compressed
<1>5. Bare(Compressed) = Loop!Text(chunks[i])
  <2>1. chunks[i] \in Seq(Letter \cup {Garbage})
    BY <1>3
  <2>2. Compressed.tail \in Letter \cup {Garbage}
    BY <1>2, <1>3 DEF Compressed
  <2>3. Compressed = [dup |-> FALSE, text |-> chunks[i], tail |-> Compressed.tail]
    BY <1>2 DEF Compressed
  <2>4. Compressed \in Record
    BY <2>1, <2>2, <2>3, TextRecord
  <2>5. Compressed # Garbage
    BY <2>4, GarbageAssumption
  <2> QED
    BY <1>4, <2>5 DEF Bare, Loop!Text
<1>6. Bare(Duplicate) = Loop!Duplicate(dup_index[i])
  BY <1>2 DEF Duplicate, Bare, Loop!Duplicate
<1> QED
  BY <1>1, <1>2, <1>4, <1>5, <1>6 DEF temp_out_buffer, Answer

\* The kernel runs on what was migrated, and answers for the chunk.
LEMMA KernelStep == ASSUME HostInv, lzw_compress_hw PROVE HostInv'
<1>1. Run("exec") /\ "exec" \in Command
  BY DEF lzw_compress_hw, Command
<1>2. device_out' = temp_out_buffer /\ UNCHANGED <<host_out, device_in>>
  BY DEF lzw_compress_hw
<1>3. device_in = host_in /\ Bare(device_out) = LastBare /\ ~ Idle
  BY <1>1, DeviceKept DEF HostInv
<1>4. Bare(temp_out_buffer) = Answer
  BY <1>3, KernelAnswers
<1>5. Bare(device_out)' = Bare(temp_out_buffer)
  BY <1>2 DEF Bare
<1> QED
  BY <1>1, <1>2, <1>4, <1>5, DeviceKept, Kept DEF HostInv

\* When q.finish returns, the host appends the answer for its chunk.
LEMMA FinishStep ==
  ASSUME HostInv, Finish
  PROVE  /\ HostInv' /\ LastBare' = Answer /\ Bare(host_out) = Answer
<1>1. /\ complete = {"write", "exec", "read"} /\ queue = << >>
      /\ at = "finish" /\ at' = "fill" /\ i' = i + 1
      /\ UNCHANGED <<table, host_in, device>>
      /\ out_buffer' = Append(out_buffer, host_out)
  BY DEF HostInv, Protocol, Finish, finish, Idle
<1>2. UNCHANGED <<host_out, device_in, device_out, queue, complete>>
  BY <1>1 DEF device
<1>3. host_out = device_out /\ Bare(device_out) = Answer
  BY <1>1 DEF HostInv, Idle
<1>4. IsSequence(out_buffer)' /\ LastBare' = Bare(host_out)
  <2>1. IsSequence(out_buffer')
    BY <1>1, AppendSequence DEF HostInv
  <2>2. out_buffer' # << >> /\ Last(out_buffer') = host_out
    BY <1>1, AppendSequence DEF HostInv
  <2> QED
    BY <2>1, <2>2 DEF LastBare, IsSequence, Last
<1>5. TableOK'
  BY <1>1 DEF HostInv, TableOK, Number, table
<1>6. Bare(device_out)' = Bare(device_out)
  BY <1>2 DEF Bare
<1> QED
  BY <1>1, <1>2, <1>3, <1>4, <1>5, <1>6 DEF HostInv, Protocol, Idle

\* One step per action of host and device.
LEMMA Step == ASSUME HostInv, [Next]_vars PROVE HostInv'
<1>1. CASE Fill
  BY <1>1, FillStep
<1>2. CASE EnqueueCommand
  BY <1>2, EnqueueStep
<1>3. CASE Finish
  BY <1>3, FinishStep
<1>4. CASE MigrateIn
  BY <1>4, MigrateInStep
<1>5. CASE lzw_compress_hw
  BY <1>5, KernelStep
<1>6. CASE MigrateOut
  BY <1>6, MigrateOutStep
<1>7. CASE UNCHANGED vars
  BY <1>7 DEF vars, table, device, HostInv, TableOK, Number, Protocol, Idle, IsSequence, Loaded,
     LastBare, Bare, Answer, Loop!Duplicate, Loop!Text
<1>8. CASE FillOverruns
  BY <1>8, OverrunStep
<1> QED
  BY <1>1, <1>2, <1>3, <1>4, <1>5, <1>6, <1>7, <1>8 DEF Next, Host, Device

\* So the protocol is kept, whatever the interleaving.
LEMMA HostInvariance == Spec => []HostInv
<1>1. HostInv /\ [Next]_vars => HostInv'
  BY Step
<1> QED
  BY InitHolds, <1>1, PTL DEF Spec

-----------------------------------------------------------------------------
\* No command still to run has its buffers touched by the host.
THEOREM Settled == Spec => []BuffersSettled
<1>1. HostInv => BuffersSettled
  BY DEF HostInv, Protocol, Idle, BuffersSettled
<1> QED
  BY HostInvariance, <1>1, PTL

\* Appending a record appends what is kept of it.
LEMMA BareAppend ==
  ASSUME NEW s, NEW e, IsSequence(s)
  PROVE  [n \in DOMAIN Append(s, e) |-> Bare(Append(s, e)[n])]
           = [n \in DOMAIN s |-> Bare(s[n])] \o <<Bare(e)>>
<1> DEFINE t == Append(s, e)
           B == {Bare(t[n]) : n \in 1 .. Len(s) + 1}
           bs == [n \in DOMAIN s |-> Bare(s[n])]
           bt == [n \in DOMAIN t |-> Bare(t[n])]
<1>1. PICK S : s \in Seq(S)
  BY DEF IsSequence
<1>2. s \in Seq(S \cup {e})
  BY <1>1
<1>3. /\ DOMAIN s = 1 .. Len(s) /\ Len(s) \in Nat
      /\ DOMAIN t = 1 .. Len(s) + 1
      /\ t[Len(s) + 1] = e
      /\ \A n \in 1 .. Len(s) : t[n] = s[n]
  BY <1>2
<1>4. \A n \in 1 .. Len(s) : Bare(s[n]) \in B
  BY <1>3
<1>5. Bare(e) \in B
  BY <1>3
<1> HIDE DEF B, t
<1>6. bs \in Seq(B) /\ Len(bs) = Len(s) /\ \A n \in 1 .. Len(s) : bs[n] = Bare(s[n])
  BY <1>3, <1>4
<1>7. bt \in [1 .. Len(s) + 1 -> B]
  BY <1>3, <1>4, <1>5
<1>8. bt \in Seq(B) /\ Len(bt) = Len(s) + 1
  BY <1>7, <1>3
<1>9. /\ \A n \in 1 .. Len(s) : bt[n] = bs[n]
      /\ bt[Len(s) + 1] = Bare(e)
  BY <1>3, <1>6
<1> HIDE DEF bs, bt
<1>10. /\ bs \o <<Bare(e)>> \in Seq(B) /\ Len(bs \o <<Bare(e)>>) = Len(s) + 1
       /\ \A n \in 1 .. Len(s) : (bs \o <<Bare(e)>>)[n] = bs[n]
       /\ (bs \o <<Bare(e)>>)[Len(s) + 1] = Bare(e)
  BY <1>3, <1>5, <1>6
<1>11. \A n \in 1 .. Len(s) + 1 : bt[n] = (bs \o <<Bare(e)>>)[n]
  BY <1>3, <1>9, <1>10
<1>12. bt = bs \o <<Bare(e)>>
  BY <1>3, <1>8, <1>10, <1>11
<1> QED
  BY <1>12 DEF bs, bt, t

\* Only what the host appends shows; when it does, the record is the one that the
\* loop writes for the chunk.
LEMMA LoopStep == ASSUME HostInv, [Next]_vars PROVE [Loop!Next]_Loop!vars
<1>1. CASE Finish
  <2>1. /\ UNCHANGED table /\ i' = i + 1 /\ i \in Number
        /\ out_buffer' = Append(out_buffer, host_out)
    BY <1>1 DEF Finish, HostInv, Loaded, Idle
  <2>2. LastBare' = Answer /\ Bare(host_out) = Answer /\ IsSequence(out_buffer)
    BY <1>1, FinishStep DEF HostInv
  <2>3. [n \in DOMAIN out_buffer |-> Bare(out_buffer[n])]'
          = [n \in DOMAIN out_buffer |-> Bare(out_buffer[n])] \o <<LastBare>>'
    <3>1. [n \in DOMAIN out_buffer |-> Bare(out_buffer[n])]'
            = [n \in DOMAIN out_buffer' |-> Bare(out_buffer'[n])]
      BY DEF Bare
    <3> QED
      BY <3>1, <2>1, <2>2, BareAppend
  <2>4. Loop!AppendRecord
    BY <2>1, <2>3 DEF Loop!AppendRecord, Loop!table, table
  <2>5. i < chunk_count /\ dup_flag[i] \in {0, 1}
    BY <2>1 DEF HostInv, TableOK, Number
  <2>6. CASE dup_flag[i] = 1
    BY <2>2, <2>4, <2>5, <2>6 DEF Loop!Next, Loop!WriteDuplicate, Answer
  <2>7. CASE dup_flag[i] = 0 /\ chunks[i] \notin Overflowing
    BY <2>2, <2>4, <2>5, <2>7 DEF Loop!Next, Loop!WriteText, Answer
  <2>8. CASE dup_flag[i] = 0 /\ chunks[i] \in Overflowing
    BY <2>2, <2>4, <2>5, <2>8 DEF Loop!Next, Loop!WriteStale, Answer
  <2> QED
    BY <2>5, <2>6, <2>7, <2>8
<1>2. CASE UNCHANGED <<table, i, out_buffer>>
  BY <1>2 DEF Loop!vars, Loop!table, table, LastBare, Bare
<1>3. Finish \/ UNCHANGED <<table, i, out_buffer>>
  BY DEF Next, Host, Device, Fill, FillOverruns, EnqueueCommand, Enqueue, MigrateIn, lzw_compress_hw,
         MigrateOut, Run, vars, device
<1> QED
  BY <1>1, <1>2, <1>3

\* The loop of the host over the kernel implements the loop of the encoder: the
\* concurrency of the two, and buffers used again, do not show in the output but for
\* the byte behind each chunk.
THEOREM OffloadImplementsLoop == Spec => ImplementsLoop
<1>1. Init => Loop!Init
  BY DEF Init, Loop!Init, LastBare
<1>2. HostInv /\ [Next]_vars => [Loop!Next]_Loop!vars
  BY LoopStep
<1> QED
  BY <1>1, <1>2, HostInvariance, PTL DEF Spec, ImplementsLoop, Loop!Spec

-----------------------------------------------------------------------------
\* What stands at a place of lzw_s1 once chunks 0 to n - 1 were handed over.
Longer(n, place) == {m \in 0 .. n - 1 : Len(chunks[m]) >= place}
Left(n, place)   == IF Longer(n, place) = {} THEN Garbage
                    ELSE chunks[Max(Longer(n, place))][place]

\* The last chunk handed over is the last longer one where it reaches, and leaves
\* the place alone where it does not.
LEMMA LeftNext ==
  ASSUME NEW n \in Nat, NEW place \in Nat, Len(chunks[n]) \in Nat
  PROVE  Left(n + 1, place) = IF place <= Len(chunks[n]) THEN chunks[n][place]
                              ELSE Left(n, place)
<1>1. 0 .. (n + 1) - 1 = (0 .. n - 1) \cup {n}
  OBVIOUS
<1>2. CASE place <= Len(chunks[n])
  <2>1. n \in Longer(n + 1, place) /\ \A m \in Longer(n + 1, place) : n >= m
    BY <1>1, <1>2 DEF Longer
  <2>2. Max(Longer(n + 1, place)) = n
    <3>1. \A x \in Longer(n + 1, place) :
            (\A y \in Longer(n + 1, place) : x >= y) => x = n
      BY <2>1, <1>1 DEF Longer
    <3> QED
      BY <2>1, <3>1 DEF Max
  <2> QED
    BY <1>2, <2>1, <2>2 DEF Left
<1>3. CASE ~ (place <= Len(chunks[n]))
  <2>1. Longer(n + 1, place) = Longer(n, place)
    BY <1>1, <1>3 DEF Longer
  <2> QED
    BY <1>3, <2>1 DEF Left
<1> QED
  BY <1>2, <1>3

\* The buffer holds what the chunks handed over left in it, the one the host is at
\* included; what the device has of it is the same once it was migrated.
HandedOver == IF Idle THEN i ELSE i + 1

TailInv ==
  /\ \A place \in 1 .. BufferSize : host_in.s1[place] = Left(HandedOver, place)
  /\ Len(out_buffer) = i
  /\ \A m \in 0 .. i - 1 : Len(chunks[m]) <= BufferSize
  /\ ~ Idle /\ "exec" \in complete /\ dup_flag[i] = 0 /\ chunks[i] \notin Overflowing
       => device_out.tail = Behind(i)
  /\ TailIsStale

\* The byte behind a chunk is at the place after its last.
LEMMA BehindIsLeft == ASSUME NEW n PROVE Behind(n) = Left(n, Len(chunks[n]) + 1)
BY DEF Behind, Left, Longer

\* Before the first chunk the buffer holds what it was allocated with.
LEMMA TailInit == Init => TailInv
<1> SUFFICES ASSUME Init PROVE TailInv
  OBVIOUS
<1>1. \A place : Longer(0, place) = {}
  BY DEF Longer
<1>2. \A place : Left(0, place) = Garbage
  BY <1>1 DEF Left
<1>3. HandedOver = 0 /\ i = 0 /\ Idle /\ Len(out_buffer) = 0
  BY DEF Init, HandedOver, Idle
<1>4. \A place \in 1 .. BufferSize : host_in.s1[place] = Garbage
  BY DEF Init
<1>5. TailIsStale
  BY <1>3 DEF TailIsStale
<1> QED
  BY <1>2, <1>3, <1>4, <1>5 DEF TailInv

\* As long as the chunks stay as they are, so does what they left behind.
LEMMA LeftKept ==
  ASSUME UNCHANGED table
  PROVE  /\ \A n, place : Left(n, place)' = Left(n, place)
         /\ \A n : Behind(n)' = Behind(n)
BY DEF Left, Longer, Behind, table

\* A chunk covers its places and leaves the others.
LEMMA TailFill == ASSUME HostInv, TailInv, Fill PROVE TailInv'
<1>1. /\ i \in Number /\ i' = i /\ UNCHANGED <<table, out_buffer>>
      /\ Idle /\ ~ Idle' /\ complete' = {}
      /\ host_in'.s1 = lzw_s1
  BY DEF Fill, Loops, HostInv, TableOK, Number, Idle
<1>2. /\ Len(chunks[i]) \in 1 .. BufferSize /\ BufferSize \in Nat /\ i \in Nat
  BY <1>1, OffloadAssumption DEF Fill, HostInv, TableOK, Number
<1>3. \A place \in 1 .. BufferSize : lzw_s1[place] = Left(i + 1, place)
  <2> TAKE place \in 1 .. BufferSize
  <2>1. host_in.s1[place] = Left(i, place)
    BY <1>1 DEF TailInv, HandedOver
  <2>2. lzw_s1[place] = IF place <= Len(chunks[i]) THEN chunks[i][place] ELSE host_in.s1[place]
    BY DEF lzw_s1
  <2> QED
    BY <1>2, <2>1, <2>2, LeftNext
<1>4. HandedOver' = i + 1
  BY <1>1 DEF HandedOver
<1>5. TailIsStale'
  BY <1>1, LeftKept DEF TailInv, TailIsStale, table
<1> QED
  BY <1>1, <1>3, <1>4, <1>5, LeftKept DEF TailInv, table

\* The kernel reads the byte behind the chunk where the buffer has it.
LEMMA TailKernel == ASSUME HostInv, TailInv, lzw_compress_hw PROVE TailInv'
<1>1. /\ UNCHANGED <<table, i, at, host_in, out_buffer>> /\ ~ Idle /\ ~ Idle'
      /\ device_in = host_in /\ device_out' = temp_out_buffer
  <2>1. Run("exec") /\ "exec" \in Command
    BY DEF lzw_compress_hw, Command
  <2> QED
    BY <2>1, DeviceKept DEF HostInv, lzw_compress_hw
<1>2. ASSUME dup_flag[i] = 0, chunks[i] \notin Overflowing
      PROVE  device_out'.tail = Behind(i)
  <2>1. /\ device_in.is_dup = 0 /\ device_in.length = Len(chunks[i])
        /\ SubSeq(device_in.s1, 1, device_in.length) = chunks[i]
        /\ i \in Number
    BY <1>1, <1>2 DEF HostInv, Loaded
  <2>2. Len(chunks[i]) \in 1 .. BufferSize /\ BufferSize \in Nat /\ i \in Nat
    BY <1>1, <2>1, OffloadAssumption DEF HostInv, TableOK, Number, Loaded
  <2>3. device_out'.tail = IF Len(chunks[i]) < BufferSize
                           THEN host_in.s1[Len(chunks[i]) + 1] ELSE Garbage
    <3>1. Compressed.text = chunks[i]
      BY <2>1 DEF Compressed
    <3>2. temp_out_buffer = Compressed
      BY <1>2, <2>1, <3>1 DEF temp_out_buffer
    <3>3. Compressed.tail = IF device_in.length < BufferSize
                            THEN device_in.s1[device_in.length + 1] ELSE Garbage
      BY DEF Compressed
    <3> QED
      BY <1>1, <2>1, <3>2, <3>3
  <2>4. CASE Len(chunks[i]) < BufferSize
    <3>1. Len(chunks[i]) + 1 \in 1 .. BufferSize
      BY <2>2, <2>4
    <3>2. host_in.s1[Len(chunks[i]) + 1] = Left(i + 1, Len(chunks[i]) + 1)
      BY <1>1, <3>1 DEF TailInv, HandedOver
    <3>3. Left(i + 1, Len(chunks[i]) + 1) = Left(i, Len(chunks[i]) + 1)
      BY <2>2, LeftNext
    <3> QED
      BY <2>3, <2>4, <3>2, <3>3, BehindIsLeft
  <2>5. CASE Len(chunks[i]) = BufferSize
    <3>1. \A m \in 0 .. i - 1 : ~ (Len(chunks[m]) >= Len(chunks[i]) + 1)
      <4>1. \A m \in 0 .. i - 1 : chunks[m] \in Content /\ Len(chunks[m]) <= BufferSize
        <5>1. \A m \in 0 .. i - 1 : Len(chunks[m]) <= BufferSize
          BY DEF TailInv
        <5>2. \A m \in 0 .. i - 1 : m \in Number
          <6>1. chunk_count \in Nat
            BY DEF HostInv, TableOK
          <6> QED
            BY <2>1, <2>2, <6>1 DEF Number
        <5>3. chunks \in [Number -> Content]
          BY DEF HostInv, TableOK
        <5> QED
          BY <5>1, <5>2, <5>3
      <4>2. \A m \in 0 .. i - 1 : Len(chunks[m]) \in Nat
        BY <4>1, OffloadAssumption
      <4> QED
        BY <2>2, <2>5, <4>1, <4>2
    <3>2. Longer(i, Len(chunks[i]) + 1) = {}
      BY <3>1 DEF Longer
    <3> QED
      BY <2>2, <2>3, <2>5, <3>2, BehindIsLeft DEF Left
  <2> QED
    BY <2>2, <2>4, <2>5
<1>3. HandedOver' = HandedOver
  BY <1>1 DEF HandedOver
<1>4. TailIsStale'
  BY <1>1, LeftKept DEF TailInv, TailIsStale, table
<1> QED
  BY <1>1, <1>2, <1>3, <1>4, LeftKept DEF TailInv, table

\* The record appended has that byte.
LEMMA TailFinish == ASSUME HostInv, TailInv, Finish PROVE TailInv'
<1>1. /\ complete = {"write", "exec", "read"} /\ ~ Idle /\ Idle' /\ Len(chunks[i]) <= BufferSize
      /\ i' = i + 1 /\ i \in Nat /\ UNCHANGED <<table, host_in, complete>>
      /\ out_buffer' = Append(out_buffer, host_out)
      /\ host_out = device_out
  BY DEF HostInv, Protocol, Finish, finish, device, Idle, Loaded
<1>2. /\ Len(out_buffer') = i + 1 /\ Len(out_buffer) = i
      /\ \A n \in 1 .. i : out_buffer'[n] = out_buffer[n]
      /\ out_buffer'[i + 1] = device_out
  BY <1>1, AppendSequence DEF HostInv, TailInv, Last
<1>3. HandedOver' = HandedOver
  BY <1>1 DEF HandedOver
<1>4. TailIsStale'
  <2>1. ASSUME NEW n \in 0 .. i, dup_flag[n] = 0, chunks[n] \notin Overflowing
        PROVE  out_buffer'[n + 1].tail = Behind(n)
    <3>1. CASE n = i
      BY <1>1, <1>2, <2>1, <3>1 DEF TailInv
    <3>2. CASE n # i
      <4>1. n \in 0 .. i - 1 /\ n + 1 \in 1 .. i
        BY <1>1, <3>2
      <4>2. out_buffer[n + 1].tail = Behind(n)
        BY <2>1, <4>1 DEF TailInv, TailIsStale
      <4> QED
        BY <1>2, <4>1, <4>2
    <3> QED
      BY <3>1, <3>2
  <2>2. 0 .. i' - 1 = 0 .. i
    BY <1>1
  <2>3. UNCHANGED <<dup_flag, chunks>> /\ \A n : Behind(n)' = Behind(n)
    BY <1>1, LeftKept DEF table
  <2> QED
    BY <2>1, <2>2, <2>3 DEF TailIsStale
<1>5. \A m \in 0 .. i' - 1 : Len(chunks[m]) <= BufferSize
  <2>1. \A m \in 0 .. (i + 1) - 1 : m \in 0 .. i - 1 \/ m = i
    BY <1>1
  <2> QED
    BY <1>1, <2>1 DEF TailInv
<1> QED
  BY <1>1, <1>2, <1>3, <1>4, <1>5, LeftKept DEF TailInv, table

\* The other steps neither fill a buffer nor append nor change the kernel's answer.
LEMMA TailOther ==
  ASSUME TailInv, UNCHANGED <<table, i, host_in, device_out, out_buffer>>,
         Idle <=> Idle',
         "exec" \in complete' <=> "exec" \in complete
  PROVE  TailInv'
<1>1. HandedOver' = HandedOver
  BY DEF HandedOver
<1>2. TailIsStale'
  BY LeftKept DEF TailInv, TailIsStale, table
<1> QED
  BY <1>1, <1>2, LeftKept DEF TailInv, table

\* The byte the kernel reads behind a chunk is the one the last longer chunk left
\* there, for any chunks and whenever the device runs.
THEOREM Stale == Spec => []TailIsStale
<1>1. ASSUME HostInv, TailInv, [Next]_vars PROVE TailInv'
  <2>1. CASE Fill
    BY <1>1, <2>1, TailFill
  <2>2. CASE EnqueueCommand
    BY <1>1, <2>2, TailOther DEF EnqueueCommand, Enqueue, Idle
  <2>3. CASE Finish
    BY <1>1, <2>3, TailFinish
  <2>4. CASE MigrateIn
    BY <1>1, <2>4, TailOther DEF MigrateIn, Run, Idle
  <2>5. CASE lzw_compress_hw
    BY <1>1, <2>5, TailKernel
  <2>6. CASE MigrateOut
    BY <1>1, <2>6, TailOther DEF MigrateOut, Run, Idle
  <2>7. CASE UNCHANGED vars
    BY <1>1, <2>7, TailOther DEF vars, device, Idle
  <2>8. CASE FillOverruns
    BY <1>1, <2>8, TailOther DEF FillOverruns, device, Idle
  <2> QED
    BY <1>1, <2>1, <2>2, <2>3, <2>4, <2>5, <2>6, <2>7, <2>8 DEF Next, Host, Device
<1>2. TailInv => TailIsStale
  BY DEF TailInv
<1> QED
  BY TailInit, <1>1, <1>2, HostInvariance, PTL DEF Spec

-----------------------------------------------------------------------------
\* A kernel given what the host may hand over answers with a record, or leaves the
\* one before.
LEMMA KernelTypes == ASSUME TypeOK PROVE temp_out_buffer \in Record \cup {Garbage}
<1>1. /\ device_in.s1 \in [1 .. BufferSize -> Letter \cup {Garbage}]
      /\ device_in.length \in 0 .. BufferSize /\ device_in.dup_index \in Nat
      /\ BufferSize \in Nat
  BY OffloadAssumption DEF TypeOK, Inputs
<1>2. device_in.s1 \in Seq(Letter \cup {Garbage}) /\ Len(device_in.s1) = BufferSize
  BY <1>1
<1>3. SubSeq(device_in.s1, 1, device_in.length) \in Seq(Letter \cup {Garbage})
  BY <1>1, <1>2
<1>4. Compressed.tail \in Letter \cup {Garbage}
  BY <1>1 DEF Compressed
<1>5. Compressed \in Record
  BY <1>3, <1>4 DEF Compressed, Record
<1>6. Duplicate \in Record
  BY <1>1 DEF Duplicate, Record
<1> QED
  BY <1>5, <1>6 DEF temp_out_buffer, TypeOK

\* A chunk that fits the buffer is copied to it.
LEMMA FillTypes == ASSUME HostInv, TypeOK, Fill PROVE TypeOK'
<1>1. i \in Number /\ chunk_count \in Nat
  BY DEF Fill, Loops, HostInv, TableOK, Number
<1>2. chunks[i] \in Content /\ dup_flag[i] \in {0, 1} /\ dup_index[i] \in Nat
  BY <1>1 DEF HostInv, TableOK, Number
<1>3. chunks[i] \in Seq(Letter) /\ Len(chunks[i]) \in 1 .. BufferSize /\ BufferSize \in Nat
  BY <1>2, OffloadAssumption DEF Fill
<1>4. \A u \in 1 .. Len(chunks[i]) : chunks[i][u] \in Letter
  BY <1>3
<1>5. lzw_s1 \in [1 .. BufferSize -> Letter \cup {Garbage}]
  BY <1>3, <1>4 DEF lzw_s1, HostInv
<1>6. lzw_length \in 0 .. BufferSize
  BY <1>3 DEF lzw_length
<1>7. host_in' \in Inputs
  BY <1>2, <1>5, <1>6 DEF Fill, Inputs
<1> QED
  BY <1>7 DEF Fill, TypeOK, table

\* A command is one of the three.
LEMMA EnqueueTypes == ASSUME TypeOK, EnqueueCommand PROVE TypeOK'
<1>1. \A c \in Command : Append(queue, c) \in Seq(Command)
  BY DEF TypeOK
<1>2. queue' \in Seq(Command) /\ at' \in {"write", "exec", "read", "finish"}
  BY <1>1 DEF EnqueueCommand, Enqueue, Command
<1> QED
  BY <1>2 DEF EnqueueCommand, Enqueue, TypeOK, table

\* What is appended is a record.
LEMMA FinishTypes == ASSUME HostInv, TypeOK, Finish PROVE TypeOK'
<1>1. i' \in 0 .. chunk_count
  BY DEF HostInv, Protocol, Idle, Loaded, Number, TableOK, Finish
<1>2. out_buffer' \in Seq(Record \cup {Garbage})
  BY DEF Finish, TypeOK
<1> QED
  BY <1>1, <1>2 DEF Finish, TypeOK, table, device

\* The device's buffers hold what was migrated or answered.
LEMMA DeviceTypes == ASSUME TypeOK, Device PROVE TypeOK'
<1>1. /\ UNCHANGED <<table, i, at, host_in, out_buffer>>
      /\ \E c \in Command : Run(c)
  BY DEF Device, MigrateIn, lzw_compress_hw, MigrateOut, Run, Command
<1>2. queue' \in Seq(Command)
  BY <1>1 DEF Run, TypeOK
<1>3. complete' \subseteq Command
  BY <1>1 DEF Run, TypeOK
<1>4. /\ device_in' \in Inputs
      /\ device_out' \in Record \cup {Garbage}
      /\ host_out' \in Record \cup {Garbage}
  BY KernelTypes DEF Device, MigrateIn, lzw_compress_hw, MigrateOut, TypeOK
<1> QED
  BY <1>1, <1>2, <1>3, <1>4 DEF TypeOK, table

\* The type invariant, for chunks of any length and any interleaving: until the host
\* comes to a chunk longer than lzw_s1, which it copies past the buffer's end
\* (host.cpp:298), what it hands over lies inside the buffers and what the kernel
\* answers and the host appends are records.
THEOREM TypeCorrect == Spec => []TypeOK
<1>1. Init => TypeOK
  <2> SUFFICES ASSUME Init PROVE TypeOK
    OBVIOUS
  <2>1. host_in \in Inputs
    BY OffloadAssumption DEF Init, Inputs
  <2>2. queue \in Seq(Command) /\ out_buffer \in Seq(Record \cup {Garbage})
    BY DEF Init
  <2>3. i \in 0 .. chunk_count
    BY OffloadAssumption DEF Init
  <2> QED
    BY <2>1, <2>2, <2>3 DEF Init, TypeOK
<1>2. ASSUME HostInv, TypeOK, [Next]_vars PROVE TypeOK'
  <2>1. CASE UNCHANGED vars
    BY <1>2, <2>1 DEF vars, table, device, TypeOK
  <2>2. CASE FillOverruns
    BY <1>2, <2>2 DEF FillOverruns, table, device, TypeOK
  <2> QED
    BY <1>2, <2>1, <2>2, FillTypes, EnqueueTypes, FinishTypes, DeviceTypes DEF Next, Host
<1> QED
  BY <1>1, <1>2, HostInvariance, PTL DEF Spec
=============================================================================
