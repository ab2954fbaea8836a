------------------------------ MODULE Offload ------------------------------
(***************************************************************************)
(* The record loop of hls/host.cpp, which hands each chunk to the kernel   *)
(* lzw_compress_hw: the host fills the mapped input buffers, enqueues a    *)
(* migration to the device, the kernel and a migration back, each waiting  *)
(* for the event of the one before, waits for the queue to finish, and     *)
(* appends what the output buffers then hold.                              *)
(*                                                                         *)
(* The host and the device run concurrently: a command reads and writes    *)
(* its buffers when the device gets to it.  The OpenCL runtime is not in   *)
(* the repository: it is modelled by what its calls promise.               *)
(***************************************************************************)
EXTENDS Integers, SequencesExt

CONSTANTS Content,     \* chunks: non-empty sequences of bytes, of any length
          BufferSize,  \* bytes of lzw_s1 (2048)
          Overflowing, \* the contents for which the dictionary runs full
          MaxChunks,   \* bound on the chunks of a run
          Garbage      \* what a buffer holds before it is written

Letter == UNION {Range(c) : c \in Content}

ASSUME OffloadAssumption == /\ Content \subseteq Seq(Letter) \ {<< >>}
                            /\ BufferSize \in Nat
                            /\ Overflowing \subseteq Content
                            /\ MaxChunks \in Nat

VARIABLES chunk_count, chunks, dup_flag, dup_index, \* as in RecordLoop
          i, at,      \* the chunk and the call the host is at
          host_in,    \* lzw_s1, lzw_length, lzw_is_dup, lzw_dup_index
          host_out,   \* lzw_temp_out_buffer, as much as its size says
          device_in, device_out, \* the same on the device
          queue,      \* the commands enqueued and not complete
          complete,   \* those of this chunk whose event is complete
          out_buffer

table  == <<chunk_count, chunks, dup_flag, dup_index>>
device == <<host_out, device_in, device_out, queue, complete>>
vars   == <<table, i, at, host_in, device, out_buffer>>

Number  == 0 .. chunk_count - 1
Command == {"write", "exec", "read"}

\* The event each command waits for.
waits(c) == CASE c = "write" -> {}
              [] c = "exec"  -> {"write"}
              [] c = "read"  -> {"exec"}

Inputs == [s1 : [1 .. BufferSize -> Letter \cup {Garbage}],
           length : 0 .. BufferSize, is_dup : {0, 1}, dup_index : Nat]

\* A text record stands for the bytes it decodes to, with the byte the kernel
\* read behind them set apart.
Record == [dup : {FALSE}, text : Seq(Letter \cup {Garbage}), tail : Letter \cup {Garbage}]
          \cup [dup : {TRUE}, index : Nat]

ASSUME GarbageAssumption == Garbage \notin Record

TypeOK == /\ i \in 0 .. chunk_count
          /\ at \in {"fill", "write", "exec", "read", "finish", "overrun"}
          /\ host_in \in Inputs /\ device_in \in Inputs
          /\ host_out \in Record \cup {Garbage} /\ device_out \in Record \cup {Garbage}
          /\ queue \in Seq(Command) /\ complete \subseteq Command
          /\ out_buffer \in Seq(Record \cup {Garbage})

\* The table of duplicates is any that module Dedup may compute: a duplicate
\* names a chunk before it.
Init == /\ chunk_count \in 0 .. MaxChunks
        /\ chunks \in [Number -> Content]
        /\ dup_flag \in [Number -> {0, 1}]
        /\ dup_index \in [Number -> Number]
        /\ \A n \in Number : IF dup_flag[n] = 1 THEN dup_index[n] < n ELSE dup_index[n] = n
        /\ i = 0 /\ at = "fill"
        /\ host_in = [s1 |-> [u \in 1 .. BufferSize |-> Garbage],
                      length |-> 0, is_dup |-> 0, dup_index |-> 0]
        /\ device_in = host_in
        /\ host_out = Garbage /\ device_out = Garbage
        /\ queue = << >> /\ complete = {}
        /\ out_buffer = << >>

-----------------------------------------------------------------------------
\* Mutants: one byte more is handed over; a duplicate is not copied in.
lzw_length_more == Len(chunks[i]) + 1
lzw_s1_unduplicated == [u \in 1 .. BufferSize |-> IF dup_flag[i] = 0 /\ u <= Len(chunks[i])
                                                  THEN chunks[i][u] ELSE host_in.s1[u]]

\* The buffer keeps, behind the chunk, what longer ones left there.
lzw_length == Len(chunks[i])
lzw_s1 == [u \in 1 .. BufferSize |->
             IF u <= Len(chunks[i]) THEN chunks[i][u] ELSE host_in.s1[u]]

\* Mutant: the loop leaves out the last chunk.
LoopsLess == i + 1 < chunk_count

Loops == i < chunk_count

\* The host.
Fill == /\ at = "fill"
        /\ Loops
        /\ Len(chunks[i]) <= BufferSize
        /\ host_in' = [s1 |-> lzw_s1, length |-> lzw_length,
                       is_dup |-> dup_flag[i], dup_index |-> dup_index[i]]
        /\ complete' = {}
        /\ at' = "write"
        /\ UNCHANGED <<table, i, host_out, device_in, device_out, queue, out_buffer>>

\* A longer chunk is copied all the same, past the end of lzw_s1: what follows is
\* undefined.
FillOverruns == /\ at = "fill"
                /\ Loops
                /\ Len(chunks[i]) > BufferSize
                /\ at' = "overrun"
                /\ UNCHANGED <<table, i, host_in, device, out_buffer>>

Enqueue(c, next) == /\ at = c
                    /\ queue' = Append(queue, c)
                    /\ at' = next
                    /\ UNCHANGED <<table, i, host_in, host_out, device_in, device_out,
                                   complete, out_buffer>>

EnqueueCommand == \/ Enqueue("write", "exec")
                  \/ Enqueue("exec", "read")
                  \/ Enqueue("read", "finish")

\* Mutant: the host does not wait for the queue.
finish_early == TRUE

\* q.finish()
finish == queue = << >>

Finish == /\ at = "finish"
          /\ finish
          /\ out_buffer' = Append(out_buffer, host_out)
          /\ i' = i + 1
          /\ at' = "fill"
          /\ UNCHANGED <<table, host_in, device>>

-----------------------------------------------------------------------------
\* The device.  The queue is in order: a command runs when it is first and the
\* events it waits for are complete.
Run(c) == /\ queue # << >> /\ Head(queue) = c
          /\ queue' = Tail(queue)
          /\ waits(c) \subseteq complete
          /\ complete' = complete \cup {c}
          /\ UNCHANGED <<table, i, at, host_in, out_buffer>>

MigrateIn == /\ Run("write")
             /\ device_in' = host_in
             /\ UNCHANGED <<host_out, device_out>>

\* The kernel, all of it: it returns before its copy-out loop when its dictionary
\* is full, and reads one byte behind the chunk, if the buffer goes on so far.
Compressed == [dup |-> FALSE,
               text |-> SubSeq(device_in.s1, 1, device_in.length),
               tail |-> IF device_in.length < BufferSize
                        THEN device_in.s1[device_in.length + 1] ELSE Garbage]

Duplicate == [dup |-> TRUE, index |-> device_in.dup_index]

\* Mutant: the kernel has no branch for duplicates.
temp_out_buffer_text ==
  IF device_in.is_dup = 0 /\ Compressed.text \notin Overflowing THEN Compressed ELSE device_out

temp_out_buffer == IF device_in.is_dup = 1 THEN Duplicate
                   ELSE IF Compressed.text \notin Overflowing THEN Compressed
                   ELSE device_out

lzw_compress_hw == /\ Run("exec")
                   /\ device_out' = temp_out_buffer
                   /\ UNCHANGED <<host_out, device_in>>

MigrateOut == /\ Run("read")
              /\ host_out' = device_out
              /\ UNCHANGED <<device_in, device_out>>

Host   == Fill \/ FillOverruns \/ EnqueueCommand \/ Finish
Device == MigrateIn \/ lzw_compress_hw \/ MigrateOut
Next   == Host \/ Device

\* The one host thread runs on, and the device completes what it is given.
Fairness == WF_vars(Host) /\ WF_vars(Device)

Spec == Init /\ [][Next]_vars /\ Fairness
-----------------------------------------------------------------------------
\* The record without the byte behind the chunk; the record before the next.
Bare(r) == IF r # Garbage /\ ~ r.dup THEN [dup |-> FALSE, text |-> r.text] ELSE r
LastBare == IF out_buffer = << >> THEN Garbage ELSE Bare(Last(out_buffer))

\* The loop of the host, with the kernel's concurrency hidden, is the loop of the
\* encoder: the record of a chunk is written in one step, from that chunk alone,
\* or is the one before it when the kernel returned early.
Loop == INSTANCE RecordLoop WITH
          Fresh <- <<Garbage>>, k <- i,
          temp_out <- <<LastBare>>,
          out_buffer <- [n \in DOMAIN out_buffer |-> Bare(out_buffer[n])]

ImplementsLoop == Loop!Spec

\* The host touches no buffer that a command still to run will read or write, and
\* a kernel finds in its buffers the chunk the host is at.
BuffersSettled ==
  /\ at = "fill" => queue = << >>
  /\ "write" \in complete => device_in = host_in
  /\ "read" \in complete => host_out = device_out

\* The byte the kernel reads behind a chunk is the one that the last longer chunk
\* handed over, duplicates included, has at that place; garbage if there was none.
Behind(n) ==
  LET place == Len(chunks[n]) + 1
      longer == {m \in 0 .. n - 1 : Len(chunks[m]) >= place}
  IN IF longer = {} THEN Garbage ELSE chunks[Max(longer)][place]

TailIsStale ==
  \A n \in 0 .. i - 1 :
    dup_flag[n] = 0 /\ chunks[n] \notin Overflowing => out_buffer[n + 1].tail = Behind(n)

\* The loop takes the step for every chunk, the last one included, or comes to one that
\* is longer than lzw_s1 (which the Rabin chunker may well make): the waits of the
\* commands and of the host cannot block one another.
Completes == <>(\/ i = chunk_count
                \/ i < chunk_count /\ Len(chunks[i]) > BufferSize)
=============================================================================
