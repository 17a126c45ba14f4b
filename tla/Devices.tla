------------------------------ MODULE Devices -------------------------------
(***************************************************************************)
(* Interrupts and the devices that interrupt: the two interrupt            *)
(* controllers, IRQ dispatch, the PIT clock, the PS/2 keyboard and the     *)
(* text console that main and the handlers share.  Gates are interrupt     *)
(* gates and no handler enables interrupts, so a handler runs to its end;  *)
(* it runs between any two memory accesses of main (the build is -O0).     *)
(***************************************************************************)
EXTENDS Integers, Sequences, FiniteSets, FiniteSetsExt

CONSTANTS
    VGA_WIDTH, VGA_HEIGHT,
    WORD,            \* 2^32: the width of a counter, and the fractions in a millisecond
    Tick,            \* WORD-ths of a millisecond in a tick
    Rates,           \* frequencies that callers may ask the timer for
    Codes,           \* bytes the keyboard sends
    Chars,           \* characters that main prints
    ChannelSets,     \* the IDE lines that may have a drive
    MaxKeys, MaxTicks, MaxChars, MaxDisk,
    MaxInputs        \* bytes and disk interrupts together

ASSUME DevicesAssumption ==
    /\ VGA_WIDTH \in Nat \ {0} /\ VGA_HEIGHT \in Nat \ {0} /\ WORD \in Nat \ {0} /\ Tick \in Nat
    /\ {MaxKeys, MaxTicks, MaxChars, MaxDisk, MaxInputs} \subseteq Nat
    /\ ChannelSets \subseteq SUBSET {14, 15}
    /\ Codes \subseteq 0 .. 255 /\ Rates \subseteq Nat

VARIABLES
    channels,  \* rigid: IDE lines with a drive
    stage,     \* how far kernel_main is; interrupts are enabled from "on"
    irr, isr, imr, \* request, in-service and mask registers, as sets of lines
    handlers,  \* lines with a registered callback
    kbd,       \* the byte in the keyboard controller, if any
    extended,  \* ps2_key_dispatch's static
    clock,     \* pit.c's counters
    printing,  \* dummy_printing_time
    con,       \* terminal_row, terminal_column and the text memory
    main,      \* where main is in terminal_putchar
    raised,    \* how often the disks' controller interrupted
    seen       \* history: see Init

vars == <<channels, stage, irr, isr, imr, handlers, kbd, extended, clock, printing, con, main, raised, seen>>

TIMER == 0
KEYS  == 1
CASCADE == 2
NONE  == -1
KEYCODE_NONE == "none"
Newline == "\n"
Blank   == " "

(* seen.bytes and events: what the keyboard driver read and reported;      *)
(* elapsed and lost: edges of the timer, and those that found one pending; *)
(* early: a byte waited when the controllers were set up; paper: the lines *)
(* an ideal terminal of this height would show; torn: a handler printed in *)
(* the middle of a character of main; typed: how many bytes so far.        *)
Init ==
    /\ channels \in ChannelSets
    /\ stage = "boot"
    /\ irr = {} /\ isr = {} /\ imr = {}
    /\ handlers = {}
    /\ kbd = NONE /\ extended = FALSE
    /\ clock = [system_timer_ms |-> 0, fractions |-> 0, tick_count |-> 0]
    /\ printing = FALSE
    /\ con = [row |-> 0, column |-> 0, cells |-> [i \in 0 .. (VGA_HEIGHT + 1) * VGA_WIDTH - 1 |-> Blank]]
    /\ main = [pc |-> "idle", c |-> Blank, at |-> 0, left |-> MaxChars]
    /\ raised = 0
    /\ seen = [bytes |-> <<>>, events |-> <<>>, elapsed |-> 0, lost |-> 0, early |-> FALSE,
               paper |-> <<<<>>>>, torn |-> FALSE, typed |-> 0]

-----------------------------------------------------------------------------
(* The controllers (8259A, cascaded, fully nested, edge triggered).        *)
Pin(line) == IF line < 8 THEN line ELSE CASCADE
Deliverable(line) ==
    /\ line \in irr \ imr
    /\ line >= 8 => CASCADE \notin imr
    /\ \A l \in isr : l < 8 => Pin(line) < l
    /\ \A l \in isr : l >= 8 /\ line >= 8 => line < l
    /\ \A l \in irr \ imr : l # line => Pin(line) < Pin(l) \/ (Pin(line) = Pin(l) /\ line < l)

Ack(line) == isr \cup {line} \cup (IF line >= 8 THEN {CASCADE} ELSE {})
DropHighest(set, lines) == IF set \cap lines = {} THEN set ELSE set \ {Min(set \cap lines)}

(* The end of interrupt goes to the slave, too, for its vectors.           *)
(* Variant: only to the controller the line is on.                         *)
pic_send_eoi_vector_one(service, line) ==
    IF line >= 8 THEN DropHighest(service, 8 .. 15) ELSE DropHighest(service, 0 .. 7)
pic_send_eoi_vector(service, line) ==
    DropHighest(IF line >= 8 THEN DropHighest(service, 8 .. 15) ELSE service, 0 .. 7)

(* The initialisation forgets pending edges; then all but the cascade is   *)
(* masked.                                                                 *)
pic_remap == irr' = {} /\ isr' = {}
setup_pic ==
    /\ pic_remap
    /\ imr' = (0 .. 15) \ {CASCADE}

pic_unmask_vector(mask, lines) == mask \ lines

-----------------------------------------------------------------------------
(* The console, a character at a time as a handler prints it.              *)
Cells(c, f(_)) == [c EXCEPT !.cells = [i \in DOMAIN @ |-> f(i)]]

terminal_putentryat(c, ch, i) == IF i \in DOMAIN c.cells THEN [c EXCEPT !.cells[i] = ch] ELSE c

ScrollRow(c, row) ==
    Cells(c, LAMBDA i : IF i \div VGA_WIDTH = row THEN c.cells[i + VGA_WIDTH] ELSE c.cells[i])
ClearLast(c) ==
    Cells(c, LAMBDA i : IF i \div VGA_WIDTH = VGA_HEIGHT - 1 THEN Blank ELSE c.cells[i])
terminal_scroll(c) ==
    ClearLast(Cells(c, LAMBDA i : IF i < VGA_HEIGHT * VGA_WIDTH THEN c.cells[i + VGA_WIDTH] ELSE c.cells[i]))

(* Variant: the last line is taken to be one further down.                 *)
terminal_nextline_below(c) ==
    IF c.row # VGA_HEIGHT THEN [c EXCEPT !.column = 0, !.row = @ + 1]
    ELSE terminal_scroll([c EXCEPT !.column = 0])
terminal_nextline(c) ==
    IF c.row + 1 # VGA_HEIGHT THEN [c EXCEPT !.column = 0, !.row = @ + 1]
    ELSE terminal_scroll([c EXCEPT !.column = 0])

(* Variant: a full line is left one character late.                        *)
terminal_putchar_late(c, ch) ==
    IF ch = Newline THEN terminal_nextline(c)
    ELSE LET put == terminal_putentryat(c, ch, c.row * VGA_WIDTH + c.column)
         IN  IF c.column = VGA_WIDTH THEN terminal_nextline(put) ELSE [put EXCEPT !.column = @ + 1]
terminal_putchar(c, ch) ==
    IF ch = Newline THEN terminal_nextline(c)
    ELSE LET put == terminal_putentryat(c, ch, c.row * VGA_WIDTH + c.column)
         IN  IF c.column + 1 = VGA_WIDTH THEN terminal_nextline(put) ELSE [put EXCEPT !.column = @ + 1]

(* The console after each prefix of text.                                  *)
Writing(c, text) ==
    LET after[n \in 0 .. Len(text)] == IF n = 0 THEN c ELSE terminal_putchar(after[n - 1], text[n])
    IN  after
terminal_write(c, text) == Writing(c, text)[Len(text)]

(* The ideal terminal: the last lines of all that was printed.             *)
NewLine(paper) == IF Len(paper) = VGA_HEIGHT THEN Append(Tail(paper), <<>>) ELSE Append(paper, <<>>)
Typed(paper, ch) ==
    LET line == Append(paper[Len(paper)], ch)
        put  == [paper EXCEPT ![Len(paper)] = line]
    IN  IF ch = Newline THEN NewLine(paper)
        ELSE IF Len(line) = VGA_WIDTH THEN NewLine(put) ELSE put
Typing(paper, text) ==
    LET after[n \in 0 .. Len(text)] == IF n = 0 THEN paper ELSE Typed(after[n - 1], text[n])
    IN  after
TypedAll(paper, text) == Typing(paper, text)[Len(text)]

(* A handler prints text and s is its history so far.                      *)
Printed(s, text) ==
    IF text = <<>> THEN s
    ELSE IF s.torn \/ main.pc # "idle" THEN [s EXCEPT !.torn = TRUE, !.paper = <<<<>>>>]
    ELSE [s EXCEPT !.paper = TypedAll(@, text)]

-----------------------------------------------------------------------------
(* The clock.                                                              *)
PIT_INPUT_CLOCK == 3579545
PIT_DIVISOR == 3
MIN_PIT_HZ  == 18
MAX_PIT_HZ  == 1193181

div_round(num, div) == num \div div + (IF (num % div) * 2 >= div THEN 1 ELSE 0)

pit_reload_value(hz) ==
    IF hz <= MIN_PIT_HZ THEN 65535
    ELSE IF hz >= MAX_PIT_HZ THEN 1
    ELSE Max({1, div_round(div_round(PIT_INPUT_CLOCK, hz), PIT_DIVISOR) % 65536})

compute_tick_frequency(reload) == div_round(div_round(PIT_INPUT_CLOCK, reload), PIT_DIVISOR)

compute_per_tick_time == [ms |-> Tick \div WORD, fractions |-> Tick % WORD]

(* pit_timer_dispatch's sums, in 32 bits each.                             *)
(* Variant: the carry out of the fractions is dropped.                     *)
AdvanceClock_no_carry(c) ==
    LET sum == c.fractions + compute_per_tick_time.fractions
    IN  [fractions       |-> sum % WORD,
         system_timer_ms |-> (c.system_timer_ms + compute_per_tick_time.ms) % WORD,
         tick_count      |-> (c.tick_count + 1) % WORD]
AdvanceClock(c) ==
    LET sum == c.fractions + compute_per_tick_time.fractions
    IN  [fractions       |-> sum % WORD,
         system_timer_ms |-> (c.system_timer_ms + compute_per_tick_time.ms + sum \div WORD) % WORD,
         tick_count      |-> (c.tick_count + 1) % WORD]

dummy_time_event == IF printing THEN <<"t", Newline>> ELSE <<>>

(* Variant: without a callback's output the end of interrupt is missed.    *)
pit_timer_dispatch_quiet(service) ==
    /\ clock' = AdvanceClock(clock)
    /\ con' = terminal_write(con, dummy_time_event)
    /\ seen' = Printed(seen, dummy_time_event)
    /\ isr' = IF printing THEN pic_send_eoi_vector(service, TIMER) ELSE service
    /\ UNCHANGED <<kbd, extended, printing>>
pit_timer_dispatch(service) ==
    /\ clock' = AdvanceClock(clock)
    /\ con' = terminal_write(con, dummy_time_event)
    /\ seen' = Printed(seen, dummy_time_event)
    /\ isr' = pic_send_eoi_vector(service, TIMER)
    /\ UNCHANGED <<kbd, extended, printing>>

-----------------------------------------------------------------------------
(* The keyboard.  A few of the codes that ps2_init enters: 30 and 28 have  *)
(* other meanings, or none, after the prefix.                              *)
PREFIX == 224
PAUSE  == 225
ps2_init ==
    [plain |-> [code \in 0 .. 127 |->
                   CASE code = 30 -> "A" [] code = 12 -> "MINUS" [] code = 28 -> "ENTER"
                     [] code = 29 -> "CTRL_LEFT" [] code = 71 -> "NUMPAD_7" [] OTHER -> KEYCODE_NONE],
     ext   |-> [code \in 0 .. 127 |->
                   CASE code = 28 -> "NUMPAD_ENTER" [] code = 29 -> "CTRL_RIGHT"
                     [] code = 71 -> "HOME" [] OTHER -> KEYCODE_NONE]]

KeyEvent(byte, ext) ==
    [code    |-> IF ext THEN ps2_init.ext[byte % 128] ELSE ps2_init.plain[byte % 128],
     pressed |-> byte < 128]

dummy_key_handler(event) ==
    CASE event.pressed /\ event.code = "A"     -> <<"a">>
      [] event.pressed /\ event.code = "ENTER" -> <<Newline>>
      [] OTHER -> <<>>

(* The prefix is kept for the next byte; Pause's byte is answered twice    *)
(* and then handled like a key.                                            *)
(* Variant: the prefix is not forgotten after its key.                     *)
ps2_key_dispatch_sticky(service) ==
    LET event == KeyEvent(kbd, extended)
    IN  /\ kbd' = NONE
        /\ extended' = (extended \/ kbd = PREFIX)
        /\ seen' = [seen EXCEPT !.bytes = Append(@, kbd),
                                !.events = IF kbd = PREFIX THEN @ ELSE Append(@, event)]
        /\ isr' = pic_send_eoi_vector(service, KEYS)
        /\ UNCHANGED <<clock, con, printing>>
ps2_key_dispatch(service) ==
    LET event == KeyEvent(kbd, extended)
        text  == dummy_key_handler(event)
        eoi   == pic_send_eoi_vector(service, KEYS)
        read  == [seen EXCEPT !.bytes = Append(@, kbd)]
    IN  /\ kbd' = NONE
        /\ \/ /\ kbd = PREFIX
              /\ extended' = TRUE
              /\ isr' = eoi
              /\ seen' = read
              /\ UNCHANGED <<con, printing>>
           \/ /\ kbd # PREFIX
              /\ extended' = FALSE
              /\ isr' = IF kbd = PAUSE THEN pic_send_eoi_vector(eoi, KEYS) ELSE eoi
              /\ seen' = Printed([read EXCEPT !.events = Append(@, event)], text)
              /\ con' = terminal_write(con, text)
              /\ printing' = (printing # (event.pressed /\ event.code = "MINUS"))
        /\ UNCHANGED clock

(* A disk's handler (BlockIO models its work) ends with the EOI on all its *)
(* paths.                                                                  *)
ide_irq(line, service) ==
    /\ isr' = pic_send_eoi_vector(service, line)
    /\ UNCHANGED <<kbd, extended, clock, printing, con, seen>>

(* A line without a callback is not answered.                              *)
idt_c_handler(line, service) ==
    \/ line = TIMER /\ line \in handlers /\ pit_timer_dispatch(service)
    \/ line = KEYS /\ line \in handlers /\ ps2_key_dispatch(service)
    \/ line >= 8 /\ line \in handlers /\ ide_irq(line, service)
    \/ /\ line \notin handlers
       /\ isr' = service
       /\ UNCHANGED <<kbd, extended, clock, printing, con, seen>>

Interrupt(line) ==
    /\ stage = "on"
    /\ Deliverable(line)
    /\ irr' = irr \ {line}
    /\ idt_c_handler(line, Ack(line))
    /\ UNCHANGED <<channels, stage, imr, handlers, main, raised>>

(* The bound on bytes and disk interrupts together.                        *)
MoreInput == raised + seen.typed < MaxInputs

(* A request that is gone when the processor asks for its vector is given  *)
(* its controller's lowest line.  The slave's leaves the master with the   *)
(* cascade in service; the master's own (line 7) changes nothing.          *)
SpuriousSlave ==
    /\ stage = "on" /\ isr = {} /\ raised < MaxDisk /\ MoreInput
    /\ idt_c_handler(15, {CASCADE})
    /\ raised' = raised + 1
    /\ UNCHANGED <<channels, stage, irr, imr, handlers, main>>

-----------------------------------------------------------------------------
(* The devices raise their lines.                                          *)
TimerEdge ==
    /\ seen.elapsed < MaxTicks /\ stage # "boot"
    /\ irr' = irr \cup {TIMER}
    /\ seen' = [seen EXCEPT !.elapsed = @ + 1, !.lost = @ + (IF TIMER \in irr THEN 1 ELSE 0)]
    /\ UNCHANGED <<channels, stage, isr, imr, handlers, kbd, extended, clock, printing, con, main, raised>>

(* The controller passes a byte on only when the last one was read.        *)
KeyByte(byte) ==
    /\ seen.typed < MaxKeys /\ kbd = NONE /\ MoreInput
    /\ kbd' = byte
    /\ irr' = irr \cup {KEYS}
    /\ seen' = [seen EXCEPT !.typed = @ + 1]
    /\ UNCHANGED <<channels, stage, isr, imr, handlers, extended, clock, printing, con, main, raised>>

(* main waits for each of its requests, so it prints when none is open.    *)
DiskDone(line) ==
    /\ stage = "on" /\ main.pc = "idle" /\ irr \cap channels = {} /\ line \in channels
    /\ raised < MaxDisk /\ MoreInput
    /\ irr' = irr \cup {line}
    /\ raised' = raised + 1
    /\ UNCHANGED <<channels, stage, isr, imr, handlers, kbd, extended, clock, printing, con, main, seen>>

-----------------------------------------------------------------------------
(* Start-up, with interrupts off.                                          *)
cpu_init ==
    /\ stage = "boot"
    /\ setup_pic
    /\ stage' = "timer"
    /\ seen' = [seen EXCEPT !.early = kbd # NONE]
    /\ UNCHANGED <<channels, handlers, kbd, extended, clock, printing, con, main, raised>>

Register(from, to, lines) ==
    /\ stage = from
    /\ imr' = pic_unmask_vector(imr, lines)
    /\ handlers' = handlers \cup lines
    /\ stage' = to
    /\ UNCHANGED <<channels, irr, isr, kbd, extended, clock, printing, con, main, raised, seen>>

init_int_timer == Register("timer", "keyboard", {TIMER})
init_keyboard  == Register("keyboard", "storage", {KEYS})
init_storage   == Register("storage", "on", channels)

-----------------------------------------------------------------------------
(* main in terminal_putchar: an access of the shared position or memory is *)
(* a step.  at is a value it holds in a register.                          *)
Go(pc, at) == main' = [main EXCEPT !.pc = pc, !.at = at]
MainOnly == UNCHANGED <<channels, stage, irr, isr, imr, handlers, kbd, extended, clock, printing, raised>>

PutCall(c) ==
    /\ stage = "on" /\ main.pc = "idle" /\ main.left > 0 /\ irr \cap channels = {}
    /\ main' = [pc |-> IF c = Newline THEN "column0" ELSE "write", c |-> c, left |-> main.left - 1,
                at |-> IF c = Newline THEN 0 ELSE con.row * VGA_WIDTH + con.column]
    /\ seen' = IF seen.torn THEN seen ELSE [seen EXCEPT !.paper = Typed(@, c)]
    /\ UNCHANGED con /\ MainOnly

PutWrite ==
    /\ main.pc = "write"
    /\ con' = terminal_putentryat(con, main.c, main.at)
    /\ Go("test_column", 0)
    /\ UNCHANGED seen /\ MainOnly

PutTestColumn ==
    /\ main.pc = "test_column"
    /\ Go(IF con.column + 1 = VGA_WIDTH THEN "column0" ELSE "load_column", 0)
    /\ UNCHANGED <<con, seen>> /\ MainOnly

PutLoadColumn ==
    /\ main.pc = "load_column"
    /\ Go("store_column", con.column)
    /\ UNCHANGED <<con, seen>> /\ MainOnly

PutStoreColumn ==
    /\ main.pc = "store_column"
    /\ con' = [con EXCEPT !.column = main.at + 1]
    /\ Go("idle", 0)
    /\ UNCHANGED seen /\ MainOnly

NextLine ==
    /\ main.pc = "column0"
    /\ con' = [con EXCEPT !.column = 0]
    /\ Go("test_row", 0)
    /\ UNCHANGED seen /\ MainOnly

NextLineTestRow ==
    /\ main.pc = "test_row"
    /\ Go(IF con.row + 1 # VGA_HEIGHT THEN "load_row" ELSE "scroll", 0)
    /\ UNCHANGED <<con, seen>> /\ MainOnly

NextLineLoadRow ==
    /\ main.pc = "load_row"
    /\ Go("store_row", con.row)
    /\ UNCHANGED <<con, seen>> /\ MainOnly

NextLineStoreRow ==
    /\ main.pc = "store_row"
    /\ con' = [con EXCEPT !.row = main.at + 1]
    /\ Go("idle", 0)
    /\ UNCHANGED seen /\ MainOnly

(* The rows move up one after the other, then the last one is cleared.     *)
Scroll ==
    /\ main.pc = "scroll"
    /\ \/ /\ main.at < VGA_HEIGHT
          /\ con' = ScrollRow(con, main.at)
          /\ Go("scroll", main.at + 1)
       \/ /\ main.at = VGA_HEIGHT
          /\ con' = ClearLast(con)
          /\ Go("idle", 0)
    /\ UNCHANGED seen /\ MainOnly

Main ==
    \/ cpu_init \/ init_int_timer \/ init_keyboard \/ init_storage
    \/ \E c \in Chars : PutCall(c)
    \/ PutWrite \/ PutTestColumn \/ PutLoadColumn \/ PutStoreColumn
    \/ NextLine \/ NextLineTestRow \/ NextLineLoadRow \/ NextLineStoreRow
    \/ Scroll

Next ==
    \/ Main
    \/ \E line \in {TIMER, KEYS, 14, 15} : Interrupt(line)
    \/ SpuriousSlave
    \/ TimerEdge
    \/ \E byte \in Codes : KeyByte(byte)
    \/ \E line \in {14, 15} : DiskDone(line)

(* Interrupts are on for good, so the processor takes some request that it *)
(* is given and keeps being given.                                         *)
Fairness == WF_vars(\E line \in {TIMER, KEYS, 14, 15} : Interrupt(line))

Spec == Init /\ [][Next]_vars /\ Fairness

-----------------------------------------------------------------------------
(* The screen is what an ideal terminal would show of everything printed,  *)
(* and the cursor at its end, whenever main is between two characters --   *)
(* unless a handler printed while main was inside terminal_putchar, which  *)
(* nothing prevents.                                                       *)
ConsoleExact ==
    main.pc = "idle" /\ ~seen.torn =>
        /\ con.row = Len(seen.paper) - 1
        /\ con.column = Len(seen.paper[Len(seen.paper)])
        /\ \A row \in 0 .. VGA_HEIGHT - 1, column \in 0 .. VGA_WIDTH - 1 :
              con.cells[row * VGA_WIDTH + column] =
                  IF row < Len(seen.paper) /\ column < Len(seen.paper[row + 1])
                  THEN seen.paper[row + 1][column + 1] ELSE Blank

(* Only main's own stores of a value it read or tested before a handler    *)
(* printed can put the cursor off the screen: column or row.  A handler's  *)
(* characters never do, nor do main's undisturbed ones.                    *)
OnScreen == con.row < VGA_HEIGHT /\ con.column < VGA_WIDTH
CursorLeavesByStaleStore ==
    [][OnScreen /\ ~OnScreen' => main.pc \in {"store_column", "store_row"} /\ seen.torn]_vars

(* The clock has counted every edge of the timer since the controllers     *)
(* were set up, but for the one that is pending and those that came while  *)
(* one was; count and time are those of so many ticks, in 32 and 64 bits,  *)
(* however often a sum was carried or wrapped.                             *)
(* The reload value and the reported frequency are the nearest integers to *)
(* the true quotients, though they are rounded twice.                      *)
Counted == seen.elapsed - seen.lost - (IF TIMER \in irr THEN 1 ELSE 0)
Nearest(d) == (2 * PIT_INPUT_CLOCK + 3 * d) \div (6 * d)
ClockExact ==
    /\ clock.tick_count = Counted % WORD
    /\ clock.system_timer_ms * WORD + clock.fractions = (Counted * Tick) % (WORD * WORD)
    /\ stage = "boot" /\ kbd = NONE => \A hz \in Rates :
          LET reload == pit_reload_value(hz)
          IN  /\ 0 < reload /\ reload < 65536
              /\ MIN_PIT_HZ < hz /\ hz < MAX_PIT_HZ => reload = Nearest(hz)
              /\ compute_tick_frequency(reload) = Nearest(reload)

(* The keyboard driver reports one event for every byte but the prefix, in *)
(* order, decoded by whether the byte before it was the prefix.            *)
KeysExact ==
    LET keys == {i \in DOMAIN seen.bytes : seen.bytes[i] # PREFIX}
    IN  /\ Len(seen.events) = Cardinality(keys)
        /\ \A i \in keys :
              seen.events[Cardinality({j \in keys : j <= i})]
                  = KeyEvent(seen.bytes[i], i > 1 /\ seen.bytes[i - 1] = PREFIX)

(* Between handlers no line is in service, so none blocks another, and     *)
(* only lines that have a callback can be delivered.  The exception: a     *)
(* spurious interrupt of the slave while the second channel has no drive   *)
(* leaves the cascade in service.  A byte that waits to be read has its    *)
(* line requested; the exception: one that waited when the controllers     *)
(* were reset lost its edge, and nothing will read it.                     *)
NothingInService ==
    /\ isr \subseteq {CASCADE}
    /\ isr # {} => 15 \notin channels
    /\ stage = "on" => (0 .. 15) \ imr = handlers \cup {CASCADE}
    /\ KEYS \in irr <=> kbd # NONE /\ ~seen.early

(* Every request is served once interrupts are on; a disk's unless the     *)
(* cascade was left in service.                                            *)
RequestsServed ==
    \A line \in {TIMER, KEYS, 14} :
        (stage = "on" /\ line \in irr) ~> (line \notin irr \/ (line >= 8 /\ isr = {CASCADE}))

=============================================================================
