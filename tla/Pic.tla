--------------------------------- MODULE Pic --------------------------------
(***************************************************************************)
(* The two interrupt controllers as pic_init programs them and isr_handler *)
(* acknowledges them.  What the controllers do is taken from what that     *)
(* code relies on: four initialisation words, fixed priorities, an end of  *)
(* interrupt for the line of highest priority in service.                  *)
(***************************************************************************)
EXTENDS Naturals, FiniteSets, Sequences, FiniteSetsExt

Lines == 0 .. 7

Bit(v, i) == (v \div <<1, 2, 4, 8, 16, 32, 64, 128>>[i + 1]) % 2 = 1

Bits(v) == {i \in Lines : Bit(v, i)}

\* A controller: the word it expects next ("ready" once initialised), the vector
\* of its line 0, the line the other one is on (a mask of it for the first, its
\* number for the second), whether a fourth word follows, and the lines that are
\* masked, requested and in service.  Before pic_init it is as the firmware left it.
Reset == [expects |-> "ready", base |-> 8, wired |-> 0, four |-> TRUE,
          imr |-> Lines, irr |-> {}, isr |-> {}]

\* A write to the command port: the first initialisation word or an end of
\* interrupt.
Command(p, v) ==
    IF Bit(v, 4)
    THEN [p EXCEPT !.expects = "icw2", !.four = Bit(v, 0), !.imr = {}, !.irr = {}, !.isr = {}]
    ELSE IF v = 32 /\ p.isr # {} THEN [p EXCEPT !.isr = @ \ {Min(@)}] ELSE p

\* A write to the data port: the other initialisation words, then the mask.
Data(p, v) ==
    CASE p.expects = "icw2"  -> [p EXCEPT !.expects = "icw3", !.base = v - (v % 8)]
      [] p.expects = "icw3"  -> [p EXCEPT !.expects = IF p.four THEN "icw4" ELSE "ready",
                                          !.wired = v]
      [] p.expects = "icw4"  -> [p EXCEPT !.expects = "ready"]
      [] p.expects = "ready" -> [p EXCEPT !.imr = Bits(v)]

\* outb(port, value): ports 0x20 and 0x21 are the first controller's, 0xA0 and
\* 0xA1 the second's.
outb(pics, port, value) ==
    CASE port = 32  -> [pics EXCEPT !.master = Command(@, value)]
      [] port = 33  -> [pics EXCEPT !.master = Data(@, value)]
      [] port = 160 -> [pics EXCEPT !.slave = Command(@, value)]
      [] port = 161 -> [pics EXCEPT !.slave = Data(@, value)]
      [] OTHER      -> pics

\* Variant: the second controller answers with the vectors of the first.
pic_init_same ==
    << <<32, 17>>, <<160, 17>>, <<33, 32>>, <<161, 32>>, <<33, 4>>, <<161, 2>>,
       <<33, 1>>, <<161, 1>>, <<33, 0>>, <<161, 0>> >>

\* The writes of pic_init, in order; those to the timer are left out.
pic_init ==
    << <<32, 17>>, <<160, 17>>,     \* they get initialised
       <<33, 32>>, <<161, 40>>,     \* master to 0x20, slave to 0x28
       <<33, 4>>, <<161, 2>>,       \* about each other
       <<33, 1>>, <<161, 1>>,       \* necessary for 80x86
       <<33, 0>>, <<161, 0>> >>     \* mask nothing

-----------------------------------------------------------------------------
\* The line a controller asks to be served, of higher priority than any in
\* service; no element if there is none.
Asks(p, requested) ==
    {i \in requested \ p.imr : /\ p.expects = "ready"
                               /\ \A j \in p.isr : i < j
                               /\ \A j \in requested \ p.imr : i <= j}

\* The second controller asks through a line of the first.
Requested(pics) ==
    pics.master.irr \cup IF Asks(pics.slave, pics.slave.irr) # {} THEN Bits(pics.master.wired)
                         ELSE {}

Pending(pics) == Asks(pics.master, Requested(pics))

Serve(p, i) == [p EXCEPT !.irr = @ \ {i}, !.isr = @ \cup {i}]

\* The processor acknowledges line i of the first controller: the vector and
\* the controllers afterwards.
Acknowledge(pics, i) ==
    IF Bit(pics.master.wired, i)
    THEN LET j == CHOOSE k \in Asks(pics.slave, pics.slave.irr) : TRUE
         IN  [vector |-> IF pics.slave.wired = i THEN pics.slave.base + j ELSE 255,
              pics |-> [master |-> Serve(pics.master, i), slave |-> Serve(pics.slave, j)]]
    ELSE [vector |-> pics.master.base + i,
          pics |-> [pics EXCEPT !.master = Serve(@, i)]]

\* A request is gone when it is acknowledged: the controller answers with its
\* last line, and nothing gets in service there.
Spurious(pics, second) ==
    LET i == CHOOSE k \in Lines : Bit(pics.master.wired, k)
    IN  IF second THEN [vector |-> pics.slave.base + 7,
                        pics |-> [pics EXCEPT !.master = Serve(@, i)]]
        ELSE [vector |-> pics.master.base + 7, pics |-> pics]
=============================================================================
