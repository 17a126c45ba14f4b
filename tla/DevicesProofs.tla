--------------------------- MODULE DevicesProofs ----------------------------
(***************************************************************************)
(* Devices keeps what it promises: the screen, the cursor, the clock, the  *)
(* key events and the interrupt lines, through every interleaving of main  *)
(* with the handlers.                                                      *)
(***************************************************************************)
EXTENDS DevicesLemmas

-----------------------------------------------------------------------------
(* What a handler changes.                                                 *)
TypeInv ==
    /\ channels \in SUBSET {14, 15}
    /\ stage \in {"boot", "timer", "keyboard", "storage", "on"}
    /\ irr \in SUBSET {TIMER, KEYS, 14, 15}
    /\ isr \in SUBSET (0 .. 15) /\ imr \in SUBSET (0 .. 15) /\ handlers \in SUBSET {TIMER, KEYS, 14, 15}
    /\ kbd \in Bytes \cup {NONE} /\ (KEYS \in irr => kbd # NONE)
    /\ extended \in BOOLEAN /\ printing \in BOOLEAN
    /\ clock \in Clocks
    /\ con \in Consoles
    /\ main \in Mains
    /\ seen \in Histories

ConsoleInv == ~ seen.torn => WillShow(main, con, seen.paper)

(* What a handler prints, and what it leaves of the history.               *)
Prints(text) ==
    /\ text \in Seq(Glyphs)
    /\ con' = terminal_write(con, text)
    /\ \E s \in Histories : s.paper = seen.paper /\ s.torn = seen.torn /\ seen' = Printed(s, text)

LEMMA PrintedType ==
    ASSUME NEW s \in Histories, NEW text \in Seq(Glyphs)
    PROVE  Printed(s, text) \in Histories
<1>1. CASE text = <<>>
  BY <1>1 DEF Printed
<1>2. CASE text # <<>> /\ (s.torn \/ main.pc # "idle")
  <2>1. <<<<>>>> \in Papers
    BY EmptyPaper
  <2>2. Printed(s, text) = [s EXCEPT !.torn = TRUE, !.paper = <<<<>>>>]
    BY <1>2 DEF Printed
  <2> DEFINE t == [s EXCEPT !.torn = TRUE]
             p == <<<<>>>>
  <2>3. t \in Histories
    BY Zenon DEF Histories
  <2>4. Printed(s, text) = [t EXCEPT !.paper = p]
    BY <2>2
  <2> HIDE DEF t, p
  <2> QED
    BY <2>1, <2>3, <2>4, SetPaper DEF p
<1>3. CASE text # <<>> /\ ~ (s.torn \/ main.pc # "idle")
  <2>1. s.paper \in Papers
    BY DEF Histories
  <2>2. TypedAll(s.paper, text) \in Papers
    BY <2>1, TypedAllType
  <2>3. Printed(s, text) = [s EXCEPT !.paper = TypedAll(s.paper, text)]
    BY <1>3 DEF Printed
  <2> QED
    BY <2>2, <2>3 DEF Histories
<1> QED
  BY <1>1, <1>2, <1>3

(* A handler that prints keeps the console right, or marks it as torn.     *)
LEMMA PrintingKeeps ==
    ASSUME TypeInv, ConsoleInv, NEW text, Prints(text), main' = main
    PROVE  /\ con' \in Consoles /\ seen' \in Histories /\ ConsoleInv'
           /\ Visible(con) => Visible(con')
<1>1. PICK s \in Histories : s.paper = seen.paper /\ s.torn = seen.torn /\ seen' = Printed(s, text)
  BY DEF Prints
<1>2. text \in Seq(Glyphs) /\ con \in Consoles /\ con' = terminal_write(con, text)
      /\ s.paper \in Papers /\ s.torn \in BOOLEAN
  BY DEF Prints, TypeInv, Histories
<1>3. seen' \in Histories
  BY <1>1, <1>2, PrintedType
<1>4. con' \in Consoles /\ (Visible(con) => Visible(con'))
  BY <1>2, WriteType
<1>5. ConsoleInv'
  <2>1. CASE text = <<>>
    <3>1. con' = con
      BY <1>2, <2>1, WriteNothing
    <3>2. seen' = s
      BY <1>1, <2>1 DEF Printed
    <3> QED
      BY <1>1, <3>1, <3>2 DEF ConsoleInv, WillShow
  <2>2. CASE text # <<>> /\ (s.torn \/ main.pc # "idle")
    <3>1. seen'.torn = TRUE
      BY <1>1, <2>2 DEF Printed, Histories
    <3> QED
      BY <3>1 DEF ConsoleInv
  <2>3. CASE text # <<>> /\ ~ (s.torn \/ main.pc # "idle")
    <3>1. Shows(con, s.paper)
      BY <1>1, <2>3 DEF ConsoleInv, WillShow
    <3>2. Shows(con', TypedAll(s.paper, text))
      BY <1>2, <3>1, WriteShows
    <3>3. seen' = [s EXCEPT !.paper = TypedAll(s.paper, text)]
      BY <1>1, <2>3 DEF Printed
    <3>4. seen'.paper = TypedAll(s.paper, text)
      BY <3>3 DEF Histories
    <3> QED
      BY <2>3, <3>2, <3>4 DEF ConsoleInv, WillShow
  <2> QED
    BY <2>1, <2>2, <2>3
<1> QED
  BY <1>3, <1>4, <1>5

(* What a handler may change, whatever it handles.                         *)
Handled(line, service) ==
    /\ isr' \in SUBSET service
    /\ kbd' \in {kbd, NONE}
    /\ extended' \in BOOLEAN /\ printing' \in BOOLEAN /\ clock' \in Clocks
    /\ \E text : Prints(text)

LEMMA Handler ==
    ASSUME TypeInv, NEW line, NEW service, line = KEYS => kbd # NONE,
           idt_c_handler(line, service)
    PROVE  Handled(line, service)
<1>0. extended \in BOOLEAN /\ printing \in BOOLEAN /\ clock \in Clocks /\ con \in Consoles /\ seen \in Histories
  BY DEF TypeInv
<1>1. CASE line = TIMER /\ line \in handlers /\ pit_timer_dispatch(service)
  <2>1. Prints(dummy_time_event)
    BY <1>0, <1>1, Texts DEF Prints, pit_timer_dispatch
  <2> QED
    BY <1>0, <1>1, <2>1, EoiSubset, AdvanceType DEF pit_timer_dispatch, Handled
<1>2. CASE line = KEYS /\ line \in handlers /\ ps2_key_dispatch(service)
  <2> DEFINE event == KeyEvent(kbd, extended)
             text  == dummy_key_handler(event)
             eoi   == pic_send_eoi_vector(service, KEYS)
             read  == [seen EXCEPT !.bytes = Append(@, kbd)]
             full  == [read EXCEPT !.events = Append(@, event)]
  <2>1. kbd \in Bytes
    BY <1>2 DEF TypeInv
  <2>2. event \in Events /\ event.pressed \in BOOLEAN
    BY <1>0, <2>1, EventType
  <2>3. read \in Histories /\ read.paper = seen.paper /\ read.torn = seen.torn
    <3>1. seen.bytes \in Seq(Bytes)
      BY <1>0 DEF Histories
    <3>2. Append(seen.bytes, kbd) \in Seq(Bytes)
      BY <2>1, <3>1
    <3> QED
      BY <1>0, <3>2, Zenon DEF Histories
  <2>4. text \in Seq(Glyphs)
    BY Texts
  <2>5. kbd' = NONE /\ clock' = clock
    BY <1>2 DEF ps2_key_dispatch
  <2>6. CASE kbd = PREFIX
    <3>1. extended' = TRUE /\ isr' = eoi /\ seen' = read /\ con' = con /\ printing' = printing
      BY <1>2, <2>6 DEF ps2_key_dispatch
    <3> HIDE DEF read
    <3>2. Prints(<<>>)
      BY <1>0, <2>3, <3>1, Texts, WriteNothing DEF Prints, Printed
    <3> QED
      BY <1>0, <2>5, <3>1, <3>2, EoiSubset DEF Handled
  <2>7. CASE kbd # PREFIX
    <3>1. /\ extended' = FALSE
          /\ isr' = IF kbd = PAUSE THEN pic_send_eoi_vector(eoi, KEYS) ELSE eoi
          /\ seen' = Printed(full, text)
          /\ con' = terminal_write(con, text)
          /\ printing' = (printing # (event.pressed /\ event.code = "MINUS"))
      BY <1>2, <2>7 DEF ps2_key_dispatch
    <3> HIDE DEF read, event, text
    <3>2. full \in Histories /\ full.paper = seen.paper /\ full.torn = seen.torn
      <4>1. read.events \in Seq(Events)
        BY <2>3 DEF Histories
      <4>2. Append(read.events, event) \in Seq(Events)
        BY <2>2, <4>1
      <4> QED
        BY <2>3, <4>2, Zenon DEF Histories
    <3> HIDE DEF full
    <3>3. Prints(text)
      BY <2>4, <3>1, <3>2 DEF Prints
    <3>4. isr' \subseteq service
      BY <3>1, EoiSubset
    <3>5. printing' \in BOOLEAN
      BY <3>1
    <3> QED
      BY <1>0, <2>5, <3>1, <3>3, <3>4, <3>5, Zenon DEF Handled
  <2> QED
    BY <2>6, <2>7
<1>3. CASE line >= 8 /\ line \in handlers /\ ide_irq(line, service)
  <2>1. Prints(<<>>)
    BY <1>0, <1>3, Texts, WriteNothing DEF Prints, ide_irq, Printed
  <2> QED
    BY <1>0, <1>3, <2>1, EoiSubset DEF ide_irq, Handled
<1>4. CASE /\ line \notin handlers
           /\ isr' = service
           /\ UNCHANGED <<kbd, extended, clock, printing, con, seen>>
  <2>1. Prints(<<>>)
    BY <1>0, <1>4, Texts, WriteNothing DEF Prints, Printed
  <2> QED
    BY <1>0, <1>4, <2>1 DEF Handled
<1> QED
  BY <1>1, <1>2, <1>3, <1>4 DEF idt_c_handler

-----------------------------------------------------------------------------
(* The console through every step.                                         *)
CursorStep == Visible(con) /\ ~ Visible(con') => main.pc \in {"store_column", "store_row"} /\ seen.torn

LEMMA Quiet ==
    ASSUME ConsoleInv, con' = con, main' = main, seen'.torn = seen.torn, seen'.paper = seen.paper
    PROVE  ConsoleInv' /\ CursorStep
  BY DEF ConsoleInv, WillShow, CursorStep

LEMMA Visibly ==
    ASSUME ConsoleInv, ~ seen.torn, main.pc = "idle"
    PROVE  Visible(con)
<1>1. Shows(con, seen.paper)
  BY DEF ConsoleInv, WillShow
<1> QED
  BY <1>1, PaperType, Sizes DEF Shows, ShowsLines, Fits, Visible

LEMMA GoType ==
    ASSUME main \in Mains, NEW pc \in Places, NEW at \in Nat, Go(pc, at)
    PROVE  main' \in Mains /\ main'.pc = pc /\ main'.at = at /\ main'.c = main.c
<1>1. main' = [pc |-> pc, c |-> main.c, at |-> at, left |-> main.left]
  BY Zenon DEF Go, Mains
<1> QED
  BY <1>1 DEF Mains

(* Steps of main that store to neither the position nor the memory.        *)
LEMMA MainLooks ==
    ASSUME TypeInv, ConsoleInv, UNCHANGED <<con, seen>>,
           PutTestColumn \/ PutLoadColumn \/ NextLineTestRow \/ NextLineLoadRow
    PROVE  main' \in Mains /\ ConsoleInv' /\ CursorStep
<1>0. main \in Mains /\ con \in Consoles /\ con.column \in Nat /\ con.row \in Nat /\ CursorStep
  BY DEF TypeInv, Consoles, CursorStep
<1>1. CASE PutTestColumn
  <2>1. CASE con.column + 1 = VGA_WIDTH
    <3>1. Go("column0", 0)
      BY <1>1, <2>1 DEF PutTestColumn
    <3>2. main' \in Mains /\ main'.pc = "column0"
      BY <1>0, <3>1, GoType DEF Places
    <3>3. ~ seen.torn => Shows(terminal_nextline(con), seen.paper)
      BY <1>1, <2>1 DEF PutTestColumn, ConsoleInv, WillShow, AfterColumn
    <3> QED
      BY <1>0, <3>2, <3>3 DEF ConsoleInv, WillShow
  <2>2. CASE con.column + 1 # VGA_WIDTH
    <3>1. Go("load_column", 0)
      BY <1>1, <2>2 DEF PutTestColumn
    <3>2. main' \in Mains /\ main'.pc = "load_column"
      BY <1>0, <3>1, GoType DEF Places
    <3>3. ~ seen.torn => Shows([con EXCEPT !.column = @ + 1], seen.paper)
      BY <1>1, <2>2 DEF PutTestColumn, ConsoleInv, WillShow, AfterColumn
    <3> QED
      BY <1>0, <3>2, <3>3 DEF ConsoleInv, WillShow
  <2> QED
    BY <2>1, <2>2
<1>2. CASE PutLoadColumn
  <2>1. main' \in Mains /\ main'.pc = "store_column" /\ main'.at = con.column
    BY <1>0, <1>2, GoType DEF PutLoadColumn, Places
  <2>2. ~ seen.torn => Shows([con EXCEPT !.column = con.column + 1], seen.paper)
    BY <1>2 DEF PutLoadColumn, ConsoleInv, WillShow
  <2> QED
    BY <1>0, <2>1, <2>2 DEF ConsoleInv, WillShow
<1>3. CASE NextLineTestRow
  <2>0. ~ seen.torn => con.column = 0 /\ Shows(terminal_nextline(con), seen.paper)
    BY <1>3 DEF NextLineTestRow, ConsoleInv, WillShow
  <2>1. CASE con.row + 1 # VGA_HEIGHT
    <3>1. main' \in Mains /\ main'.pc = "load_row"
      BY <1>0, <1>3, <2>1, GoType DEF NextLineTestRow, Places
    <3>2. ASSUME con.column = 0 PROVE terminal_nextline(con) = [con EXCEPT !.row = @ + 1]
      <4>1. terminal_nextline(con) = [con EXCEPT !.column = 0, !.row = @ + 1]
        BY <2>1, Zenon DEF terminal_nextline
      <4> QED
        BY <1>0, <3>2, <4>1, Zenon DEF Consoles
    <3> QED
      BY <1>0, <2>0, <3>1, <3>2 DEF ConsoleInv, WillShow
  <2>2. CASE con.row + 1 = VGA_HEIGHT
    <3>1. main' \in Mains /\ main'.pc = "scroll" /\ main'.at = 0
      BY <1>0, <1>3, <2>2, GoType DEF NextLineTestRow, Places
    <3>2. ASSUME con.column = 0 PROVE terminal_nextline(con) = [con EXCEPT !.cells = ScrolledCells(con, 0)]
      <4>1. [con EXCEPT !.column = 0] = con
        BY <1>0, <3>2 DEF Consoles
      <4>2. terminal_nextline(con) = terminal_scroll(con)
        BY <2>2, <4>1 DEF terminal_nextline
      <4> QED
        BY <1>0, <4>2, ScrollIs
    <3> QED
      BY <1>0, <2>0, <3>1, <3>2 DEF ConsoleInv, WillShow
  <2> QED
    BY <2>1, <2>2
<1>4. CASE NextLineLoadRow
  <2>1. main' \in Mains /\ main'.pc = "store_row" /\ main'.at = con.row
    BY <1>0, <1>4, GoType DEF NextLineLoadRow, Places
  <2>2. ~ seen.torn => Shows([con EXCEPT !.row = con.row + 1], seen.paper)
    BY <1>4 DEF NextLineLoadRow, ConsoleInv, WillShow
  <2> QED
    BY <1>0, <2>1, <2>2 DEF ConsoleInv, WillShow
<1> QED
  BY <1>1, <1>2, <1>3, <1>4

(* Steps of main that store.                                               *)
LEMMA MainStores ==
    ASSUME TypeInv, ConsoleInv, UNCHANGED seen,
           PutWrite \/ PutStoreColumn \/ NextLine \/ NextLineStoreRow \/ Scroll
    PROVE  main' \in Mains /\ con' \in Consoles /\ ConsoleInv' /\ CursorStep
<1>0. main \in Mains /\ con \in Consoles /\ con.column \in Nat /\ con.row \in Nat
      /\ main.c \in Glyphs /\ main.at \in Nat /\ "idle" \in Places /\ 0 \in Nat
  BY DEF TypeInv, Consoles, Mains, Places
<1>1. CASE PutWrite
  <2>1. main' \in Mains /\ main'.pc = "test_column"
    BY <1>0, <1>1, GoType DEF PutWrite, Places
  <2>2. con' = terminal_putentryat(con, main.c, main.at)
    BY <1>1 DEF PutWrite
  <2>3. con' \in Consoles /\ con'.row = con.row /\ con'.column = con.column
    BY <1>0, <2>2, PutentryType
  <2>4. ~ seen.torn => Shows(AfterColumn(con'), seen.paper)
    BY <1>1, <2>2 DEF PutWrite, ConsoleInv, WillShow
  <2> QED
    BY <2>1, <2>3, <2>4 DEF ConsoleInv, WillShow, CursorStep, Visible
<1>2. CASE PutStoreColumn
  <2>1. main' \in Mains /\ main'.pc = "idle"
    BY <1>0, <1>2, GoType DEF PutStoreColumn
  <2>2. con' = [con EXCEPT !.column = main.at + 1]
    BY <1>2 DEF PutStoreColumn
  <2>3. con' \in Consoles
    BY <1>0, <2>2 DEF Consoles
  <2>4. ~ seen.torn => Shows(con', seen.paper)
    BY <1>2, <2>2 DEF PutStoreColumn, ConsoleInv, WillShow
  <2>5. ConsoleInv'
    BY <2>1, <2>4 DEF ConsoleInv, WillShow
  <2>6. ~ seen.torn => Visible(con')
    BY <2>4, PaperType, Sizes DEF Shows, ShowsLines, Fits, Visible
  <2> QED
    BY <1>2, <2>1, <2>3, <2>5, <2>6 DEF CursorStep, PutStoreColumn
<1>3. CASE NextLine
  <2>1. main' \in Mains /\ main'.pc = "test_row"
    BY <1>0, <1>3, GoType DEF NextLine, Places
  <2>2. con' = [con EXCEPT !.column = 0]
    BY <1>3 DEF NextLine
  <2>3. con' \in Consoles /\ con'.row = con.row /\ con'.column = 0 /\ con'.cells = con.cells
    BY <1>0, <2>2 DEF Consoles
  <2>4. terminal_nextline(con') = terminal_nextline(con)
    <3>1. [con' EXCEPT !.column = 0] = con' /\ [con EXCEPT !.column = 0] = con'
      BY <2>2, <2>3, Zenon DEF Consoles
    <3>2. [con' EXCEPT !.column = 0, !.row = @ + 1] = [con EXCEPT !.column = 0, !.row = @ + 1]
      BY <1>0, <2>2, <2>3, Zenon DEF Consoles
    <3> QED
      BY <2>3, <3>1, <3>2 DEF terminal_nextline
  <2>5. ~ seen.torn => Shows(terminal_nextline(con'), seen.paper)
    BY <1>3, <2>4 DEF NextLine, ConsoleInv, WillShow
  <2> QED
    BY <2>1, <2>3, <2>5, Sizes DEF ConsoleInv, WillShow, CursorStep, Visible
<1>4. CASE NextLineStoreRow
  <2>1. main' \in Mains /\ main'.pc = "idle"
    BY <1>0, <1>4, GoType DEF NextLineStoreRow
  <2>2. con' = [con EXCEPT !.row = main.at + 1]
    BY <1>4 DEF NextLineStoreRow
  <2>3. con' \in Consoles
    BY <1>0, <2>2 DEF Consoles
  <2>4. ~ seen.torn => Shows(con', seen.paper)
    BY <1>4, <2>2, SMTT(20) DEF NextLineStoreRow, ConsoleInv, WillShow
  <2>5. ConsoleInv'
    BY <2>1, <2>4 DEF ConsoleInv, WillShow
  <2>6. ~ seen.torn => Visible(con')
    BY <2>4, PaperType, Sizes DEF Shows, ShowsLines, Fits, Visible
  <2> QED
    BY <1>4, <2>1, <2>3, <2>5, <2>6 DEF CursorStep, NextLineStoreRow
<1>5. CASE Scroll
  <2>0. ~ seen.torn => Shows([con EXCEPT !.cells = ScrolledCells(con, main.at)], seen.paper)
    BY <1>5 DEF Scroll, ConsoleInv, WillShow
  <2>1. CASE main.at < VGA_HEIGHT /\ con' = ScrollRow(con, main.at) /\ Go("scroll", main.at + 1)
    <3>1. main' \in Mains /\ main'.pc = "scroll" /\ main'.at = main.at + 1
      BY <1>0, <2>1, GoType DEF Places
    <3>2. main.at \in 0 .. VGA_HEIGHT - 1
      BY <1>0, <2>1, Sizes
    <3>3. /\ con' \in Consoles /\ con'.row = con.row /\ con'.column = con.column
          /\ ScrolledCells(con', main.at + 1) = ScrolledCells(con, main.at)
      BY <1>0, <2>1, <3>2, ScrollRowIs
    <3>4. [con' EXCEPT !.cells = ScrolledCells(con', main.at + 1)]
            = [con EXCEPT !.cells = ScrolledCells(con, main.at)]
      BY <1>0, <3>3 DEF Consoles
    <3>5. ConsoleInv'
      BY <2>0, <3>1, <3>4 DEF ConsoleInv, WillShow
    <3> QED
      BY <3>1, <3>3, <3>5 DEF CursorStep, Visible
  <2>2. CASE main.at = VGA_HEIGHT /\ con' = ClearLast(con) /\ Go("idle", 0)
    <3>1. main' \in Mains /\ main'.pc = "idle"
      BY <1>0, <2>2, GoType
    <3>2. con' = [con EXCEPT !.cells = ScrolledCells(con, main.at)]
      BY <1>0, <2>2, ClearLastIs
    <3>3. con' \in Consoles /\ con'.row = con.row /\ con'.column = con.column
      BY <1>0, <3>2, ScrolledType, SetCells
    <3>4. ConsoleInv'
      BY <2>0, <3>1, <3>2 DEF ConsoleInv, WillShow
    <3> QED
      BY <3>1, <3>3, <3>4 DEF CursorStep, Visible
  <2> QED
    BY <1>5, <2>1, <2>2 DEF Scroll
<1> QED
  BY <1>1, <1>2, <1>3, <1>4, <1>5

(* main begins a character.                                                *)
LEMMA MainBegins ==
    ASSUME TypeInv, ConsoleInv, NEW c \in Chars, PutCall(c)
    PROVE  main' \in Mains /\ seen' \in Histories /\ ConsoleInv' /\ CursorStep
<1>0. main \in Mains /\ con \in Consoles /\ seen \in Histories /\ seen.paper \in Papers
      /\ seen.torn \in BOOLEAN /\ c \in Glyphs /\ con.column \in Nat /\ con.row \in Nat
      /\ main.left \in Nat /\ main.left > 0
  BY DEF TypeInv, Consoles, Mains, Histories, Glyphs, PutCall
<1>1. con' = con /\ main.pc = "idle"
      /\ main' = [pc |-> IF c = Newline THEN "column0" ELSE "write", c |-> c, left |-> main.left - 1,
                  at |-> IF c = Newline THEN 0 ELSE con.row * VGA_WIDTH + con.column]
      /\ seen' = IF seen.torn THEN seen ELSE [seen EXCEPT !.paper = Typed(seen.paper, c)]
  BY DEF PutCall
<1>2. main' \in Mains
  <2>1. main.left - 1 \in Nat /\ con.row * VGA_WIDTH + con.column \in Nat
    BY <1>0, Sizes
  <2> QED
    BY <1>0, <1>1, <2>1 DEF Mains, Places
<1>3. Typed(seen.paper, c) \in Papers
  BY <1>0, TypedType
<1>4. seen' \in Histories
  BY <1>0, <1>1, <1>3, SetPaper
<1>5. CASE seen.torn
  <2>1. seen' = seen /\ con' = con
    BY <1>1, <1>5
  <2> QED
    BY <1>2, <1>4, <1>5, <2>1 DEF ConsoleInv, CursorStep
<1>6. CASE ~ seen.torn
  <2>1. seen'.paper = Typed(seen.paper, c)
    BY <1>0, <1>1, <1>3, <1>6, SetPaper
  <2>2. Shows(con, seen.paper)
    BY <1>1, <1>6 DEF ConsoleInv, WillShow
  <2>3. Shows(terminal_putchar(con, c), seen'.paper)
    BY <1>0, <2>1, <2>2, PutcharShows
  <2>4. CASE c = Newline
    <3>1. terminal_putchar(con, c) = terminal_nextline(con)
      BY <2>4 DEF terminal_putchar
    <3> QED
      BY <1>1, <1>2, <1>4, <2>3, <2>4, <3>1 DEF ConsoleInv, WillShow, CursorStep, Visible
  <2>5. CASE c # Newline
    <3> DEFINE put == terminal_putentryat(con, c, con.row * VGA_WIDTH + con.column)
    <3>1. put.column = con.column
      BY <1>0, PutentryType
    <3>2. terminal_putchar(con, c) = IF con.column + 1 = VGA_WIDTH THEN terminal_nextline(put) ELSE [put EXCEPT !.column = @ + 1]
      BY <2>5 DEF terminal_putchar
    <3>3. main'.pc = "write" /\ main'.c = c /\ main'.at = con.row * VGA_WIDTH + con.column
      BY <1>1, <2>5
    <3>4. put = terminal_putentryat(con', main'.c, main'.at)
      BY <1>1, <3>3
    <3> HIDE DEF put
    <3>5. terminal_putchar(con, c) = AfterColumn(put)
      BY <3>1, <3>2 DEF AfterColumn
    <3>6. ConsoleInv'
      BY <2>3, <3>3, <3>4, <3>5 DEF ConsoleInv, WillShow
    <3> QED
      BY <1>1, <1>2, <1>4, <3>6 DEF CursorStep, Visible
  <2> QED
    BY <2>4, <2>5
<1> QED
  BY <1>2, <1>4, <1>5, <1>6

-----------------------------------------------------------------------------
(* What the handler of each line does, but for the screen.                 *)
LEMMA PrintedKeeps ==
    ASSUME NEW s \in Histories, NEW text \in Seq(Glyphs)
    PROVE  LET p == Printed(s, text)
           IN  /\ p.bytes = s.bytes /\ p.events = s.events /\ p.elapsed = s.elapsed
               /\ p.lost = s.lost /\ p.early = s.early
  BY DEF Printed, Histories

SameLine == kbd' = kbd /\ (extended' <=> extended) /\ seen'.bytes = seen.bytes /\ seen'.events = seen.events
Answers(line, service) ==
    /\ seen'.elapsed = seen.elapsed /\ seen'.lost = seen.lost /\ (seen'.early <=> seen.early)
    /\ line \notin handlers => isr' = service /\ clock' = clock /\ SameLine
    /\ line \in handlers /\ line = TIMER =>
          clock' = AdvanceClock(clock) /\ isr' = pic_send_eoi_vector(service, TIMER) /\ SameLine
    /\ line \in handlers /\ line >= 8 =>
          clock' = clock /\ isr' = pic_send_eoi_vector(service, line) /\ SameLine
    /\ line \in handlers /\ line = KEYS =>
          /\ clock' = clock
          /\ \/ isr' = pic_send_eoi_vector(service, KEYS)
             \/ isr' = pic_send_eoi_vector(pic_send_eoi_vector(service, KEYS), KEYS)
          /\ kbd' = NONE /\ (extended' <=> kbd = PREFIX)
          /\ seen'.bytes = Append(seen.bytes, kbd)
          /\ seen'.events = IF kbd = PREFIX THEN seen.events ELSE Append(seen.events, KeyEvent(kbd, extended))

LEMMA HandlerAnswers ==
    ASSUME TypeInv, NEW line \in {TIMER, KEYS, 14, 15}, NEW service, line = KEYS => kbd # NONE,
           idt_c_handler(line, service)
    PROVE  Answers(line, service)
<1>0. extended \in BOOLEAN /\ seen \in Histories
  BY DEF TypeInv
<1> USE DEF TIMER, KEYS
<1>1. CASE line = TIMER /\ line \in handlers /\ pit_timer_dispatch(service)
  <2>1. dummy_time_event \in Seq(Glyphs)
    BY Texts
  <2>2. seen' = Printed(seen, dummy_time_event)
    BY <1>1 DEF pit_timer_dispatch
  <2>3. /\ seen'.bytes = seen.bytes /\ seen'.events = seen.events /\ seen'.elapsed = seen.elapsed
        /\ seen'.lost = seen.lost /\ seen'.early = seen.early
    BY <1>0, <2>1, <2>2, PrintedKeeps
  <2> QED
    BY <1>0, <1>1, <2>3 DEF Answers, SameLine, pit_timer_dispatch
<1>2. CASE line = KEYS /\ line \in handlers /\ ps2_key_dispatch(service)
  <2> DEFINE event == KeyEvent(kbd, extended)
             text  == dummy_key_handler(event)
             eoi   == pic_send_eoi_vector(service, KEYS)
             read  == [seen EXCEPT !.bytes = Append(@, kbd)]
             full  == [read EXCEPT !.events = Append(@, event)]
  <2>1. kbd \in Bytes
    BY <1>2 DEF TypeInv
  <2>2. event \in Events
    BY <1>0, <2>1, EventType
  <2>3. /\ read \in Histories /\ read.bytes = Append(seen.bytes, kbd) /\ read.events = seen.events
        /\ read.elapsed = seen.elapsed /\ read.lost = seen.lost /\ read.early = seen.early
    <3>1. seen.bytes \in Seq(Bytes)
      BY <1>0 DEF Histories
    <3>2. Append(seen.bytes, kbd) \in Seq(Bytes)
      BY <2>1, <3>1
    <3> QED
      BY <1>0, <3>2, Zenon DEF Histories
  <2>4. text \in Seq(Glyphs)
    BY Texts
  <2>5. kbd' = NONE /\ clock' = clock
    BY <1>2 DEF ps2_key_dispatch
  <2>6. CASE kbd = PREFIX
    <3>1. extended' = TRUE /\ isr' = eoi /\ seen' = read
      BY <1>2, <2>6, SMTT(20) DEF ps2_key_dispatch
    <3> HIDE DEF read
    <3> QED
      BY <1>2, <2>3, <2>5, <2>6, <3>1 DEF Answers
  <2>7. CASE kbd # PREFIX
    <3>1. /\ extended' = FALSE
          /\ isr' = IF kbd = PAUSE THEN pic_send_eoi_vector(eoi, KEYS) ELSE eoi
          /\ seen' = Printed(full, text)
      BY <1>2, <2>7 DEF ps2_key_dispatch
    <3> HIDE DEF read, event, text
    <3>2. /\ full \in Histories /\ full.bytes = read.bytes /\ full.events = Append(read.events, event)
          /\ full.elapsed = read.elapsed /\ full.lost = read.lost /\ full.early = read.early
      <4>1. read.events \in Seq(Events)
        BY <2>3 DEF Histories
      <4>2. Append(read.events, event) \in Seq(Events)
        BY <2>2, <4>1
      <4> QED
        BY <2>3, <4>2, Zenon DEF Histories
    <3> HIDE DEF full
    <3>3. /\ seen'.bytes = full.bytes /\ seen'.events = full.events /\ seen'.elapsed = full.elapsed
          /\ seen'.lost = full.lost /\ seen'.early = full.early
      BY <2>4, <3>1, <3>2, PrintedKeeps
    <3>4. \/ isr' = pic_send_eoi_vector(service, KEYS)
          \/ isr' = pic_send_eoi_vector(pic_send_eoi_vector(service, KEYS), KEYS)
      BY <3>1
    <3>5. seen'.events = Append(seen.events, KeyEvent(kbd, extended)) /\ seen'.bytes = Append(seen.bytes, kbd)
      BY <2>3, <3>2, <3>3 DEF event
    <3> QED
      BY <1>2, <2>3, <2>5, <2>7, <3>1, <3>2, <3>3, <3>4, <3>5, SMTT(20) DEF Answers
  <2> QED
    BY <2>6, <2>7
<1>3. CASE line >= 8 /\ line \in handlers /\ ide_irq(line, service)
  BY <1>0, <1>3 DEF ide_irq, Answers, SameLine
<1>4. CASE /\ line \notin handlers
           /\ isr' = service
           /\ UNCHANGED <<kbd, extended, clock, printing, con, seen>>
  BY <1>0, <1>4 DEF Answers, SameLine
<1> QED
  BY <1>1, <1>2, <1>3, <1>4 DEF idt_c_handler

-----------------------------------------------------------------------------
(* The lines in service.                                                   *)
Lines == CASE stage \in {"boot", "timer"} -> {}
           [] stage = "keyboard" -> {TIMER}
           [] stage = "storage"  -> {TIMER, KEYS}
           [] OTHER -> {TIMER, KEYS} \cup channels

LinesInv ==
    /\ isr \subseteq {CASCADE} /\ (isr # {} => 15 \notin channels)
    /\ irr \cap {14, 15} \subseteq channels
    /\ KEYS \in irr <=> kbd # NONE /\ ~ seen.early
    /\ seen.early => kbd # NONE
    /\ stage = "boot" => TIMER \notin irr /\ ~ seen.early
    /\ stage # "on" => isr = {}
    /\ handlers = Lines
    /\ stage # "boot" => (0 .. 15) \ imr = Lines \cup {CASCADE}

(* A handler leaves only the cascade in service, and not even that when    *)
(* nothing was.                                                            *)
LEMMA InterruptLines ==
    ASSUME TypeInv, LinesInv, NEW line \in {TIMER, KEYS, 14, 15}, Interrupt(line)
    PROVE  LinesInv'
<1> USE DEF TIMER, KEYS, CASCADE
<1>1. /\ stage = "on" /\ line \in irr /\ irr' = irr \ {line} /\ idt_c_handler(line, Ack(line))
      /\ UNCHANGED <<channels, stage, imr, handlers>>
      /\ \A l \in isr : l < 8 => Pin(line) < l
  BY DEF Interrupt, Deliverable
<1>2. handlers = {0, 1} \cup channels /\ line \in handlers /\ isr \in SUBSET {2}
      /\ channels \subseteq {14, 15}
  BY <1>1 DEF LinesInv, Lines, TypeInv
<1>3. line = KEYS => kbd # NONE
  BY <1>1 DEF TypeInv
<1>4. Answers(line, Ack(line))
  BY <1>1, <1>3, HandlerAnswers
<1>5. isr' \subseteq isr
  <2>1. CASE line \in {0, 1}
    <3>1. Ack(line) = isr \cup {line}
      BY <2>1 DEF Ack
    <3>2. pic_send_eoi_vector(Ack(line), line) = isr
      BY <1>2, <2>1, <3>1, EoiLow
    <3>3. isr' = isr \/ isr' = pic_send_eoi_vector(isr, KEYS)
      BY <1>2, <1>4, <2>1, <3>2 DEF Answers
    <3> QED
      BY <3>3, EoiSubset
  <2>2. CASE line \in {14, 15}
    <3>1. isr = {}
      BY <1>1, <1>2, <2>2 DEF Pin
    <3>2. Ack(line) = {line, 2}
      BY <2>2, <3>1 DEF Ack
    <3>3. isr' = pic_send_eoi_vector({line, 2}, line)
      BY <1>2, <1>4, <2>2, <3>2 DEF Answers
    <3> QED
      BY <2>2, <3>3, EoiHigh
  <2> QED
    BY <2>1, <2>2
<1>6. seen'.early <=> seen.early
  BY <1>4 DEF Answers
<1>7. (KEYS \in irr' <=> kbd' # NONE /\ ~ seen'.early) /\ (seen'.early => kbd' # NONE)
  <2>1. CASE line = KEYS
    BY <1>1, <1>2, <1>4, <1>6, <2>1 DEF Answers, LinesInv
  <2>2. CASE line # KEYS
    <3>1. kbd' = kbd
      BY <1>2, <1>4, <2>2 DEF Answers, SameLine
    <3> QED
      BY <1>1, <1>6, <2>2, <3>1 DEF LinesInv
  <2> QED
    BY <2>1, <2>2
<1>8. Lines' = Lines
  BY <1>1 DEF Lines
<1> QED
  BY <1>1, <1>5, <1>6, <1>7, <1>8, Zenon DEF LinesInv

LEMMA SpuriousLines ==
    ASSUME TypeInv, LinesInv, SpuriousSlave
    PROVE  LinesInv'
<1> USE DEF TIMER, KEYS, CASCADE
<1>1. /\ stage = "on" /\ idt_c_handler(15, {2})
      /\ UNCHANGED <<channels, stage, irr, imr, handlers>>
  BY DEF SpuriousSlave
<1>2. handlers = {0, 1} \cup channels
  BY <1>1 DEF LinesInv, Lines
<1>3. Answers(15, {2})
  BY <1>1, HandlerAnswers
<1>4. isr' \subseteq {2} /\ (isr' # {} => 15 \notin channels)
  <2>1. CASE 15 \in handlers
    BY <1>3, <2>1, EoiHigh DEF Answers
  <2>2. CASE 15 \notin handlers
    BY <1>2, <1>3, <2>2 DEF Answers
  <2> QED
    BY <2>1, <2>2
<1>5. (seen'.early <=> seen.early) /\ kbd' = kbd
  BY <1>3 DEF Answers, SameLine
<1>6. Lines' = Lines
  BY <1>1 DEF Lines
<1> QED
  BY <1>1, <1>4, <1>5, <1>6 DEF LinesInv

-----------------------------------------------------------------------------
(* The inductive invariant, and each step.                                 *)
KeysInv == (extended <=> EndsInPrefix(seen.bytes)) /\ Reported(seen.bytes, seen.events)
ClockInv == clock.tick_count = Counted % WORD /\ TimeOf(clock) = (Counted * Tick) % (WORD * WORD)

IInv == TypeInv /\ ConsoleInv /\ LinesInv /\ ClockInv /\ KeysInv

LEMMA CountedType == TypeInv => Counted \in Int
  BY DEF TypeInv, Counted, Histories

(* Steps of main inside a character.                                       *)
Printing ==
    \/ \E c \in Chars : PutCall(c)
    \/ PutWrite \/ PutTestColumn \/ PutLoadColumn \/ PutStoreColumn
    \/ NextLine \/ NextLineTestRow \/ NextLineLoadRow \/ NextLineStoreRow
    \/ Scroll

Still ==
    /\ UNCHANGED <<channels, stage, irr, isr, imr, handlers, kbd, extended, clock, printing>>
    /\ seen'.bytes = seen.bytes /\ seen'.events = seen.events /\ seen'.elapsed = seen.elapsed
    /\ seen'.lost = seen.lost /\ seen'.early = seen.early

LEMMA StillKeeps ==
    ASSUME LinesInv, ClockInv, KeysInv, Still
    PROVE  LinesInv' /\ ClockInv' /\ KeysInv'
<1>1. LinesInv'
  BY DEF Still, LinesInv, Lines
<1>2. ClockInv'
  BY DEF Still, ClockInv, Counted
<1>3. KeysInv'
  BY DEF Still, KeysInv
<1> QED
  BY <1>1, <1>2, <1>3

LEMMA PrintingStill ==
    ASSUME TypeInv, Printing
    PROVE  Still
<1>0. seen \in Histories /\ seen.paper \in Papers
  BY DEF TypeInv, Histories
<1>1. ASSUME NEW c \in Chars, PutCall(c) PROVE Still
  <2>1. UNCHANGED <<channels, stage, irr, isr, imr, handlers, kbd, extended, clock, printing>>
    BY <1>1 DEF PutCall, MainOnly
  <2>2. CASE seen.torn
    BY <1>1, <2>1, <2>2 DEF PutCall, Still
  <2>3. CASE ~ seen.torn
    <3>1. seen' = [seen EXCEPT !.paper = Typed(seen.paper, c)]
      BY <1>1, <2>3 DEF PutCall
    <3> QED
      BY <1>0, <2>1, <3>1 DEF Still, Histories
  <2> QED
    BY <2>2, <2>3
<1>2. CASE \/ PutWrite \/ PutTestColumn \/ PutLoadColumn \/ PutStoreColumn
           \/ NextLine \/ NextLineTestRow \/ NextLineLoadRow \/ NextLineStoreRow
           \/ Scroll
  BY <1>2, Zenon DEF PutWrite, PutTestColumn, PutLoadColumn, PutStoreColumn, NextLine, NextLineTestRow,
             NextLineLoadRow, NextLineStoreRow, Scroll, MainOnly, Still
<1> QED
  BY <1>1, <1>2 DEF Printing

LEMMA PrintingStep ==
    ASSUME IInv, Printing
    PROVE  IInv' /\ CursorStep
<1>1. TypeInv /\ ConsoleInv
  BY DEF IInv
<1>2. Still
  BY <1>1, PrintingStill
<1>3. LinesInv' /\ ClockInv' /\ KeysInv'
  BY <1>2, StillKeeps DEF IInv
<1>4. main' \in Mains /\ con' \in Consoles /\ seen' \in Histories /\ ConsoleInv' /\ CursorStep
  <2>0. con \in Consoles /\ seen \in Histories
    BY <1>1 DEF TypeInv
  <2>1. ASSUME NEW c \in Chars, PutCall(c)
        PROVE  main' \in Mains /\ con' \in Consoles /\ seen' \in Histories /\ ConsoleInv' /\ CursorStep
    <3>1. con' = con
      BY <2>1 DEF PutCall
    <3>2. main' \in Mains /\ seen' \in Histories /\ ConsoleInv' /\ CursorStep
      BY <1>1, <2>1, MainBegins
    <3> QED
      BY <2>0, <3>1, <3>2
  <2>2. CASE PutTestColumn \/ PutLoadColumn \/ NextLineTestRow \/ NextLineLoadRow
    <3>1. UNCHANGED <<con, seen>>
      BY <2>2 DEF PutTestColumn, PutLoadColumn, NextLineTestRow, NextLineLoadRow
    <3>2. main' \in Mains /\ ConsoleInv' /\ CursorStep
      BY <1>1, <2>2, <3>1, MainLooks, Zenon
    <3> QED
      BY <2>0, <3>1, <3>2
  <2>3. CASE PutWrite \/ PutStoreColumn \/ NextLine \/ NextLineStoreRow \/ Scroll
    <3>1. UNCHANGED seen
      BY <2>3, Zenon DEF PutWrite, PutStoreColumn, NextLine, NextLineStoreRow, Scroll
    <3>2. main' \in Mains /\ con' \in Consoles /\ ConsoleInv' /\ CursorStep
      BY <1>1, <2>3, <3>1, MainStores, Zenon
    <3> QED
      BY <2>0, <3>1, <3>2
  <2> QED
    BY <2>1, <2>2, <2>3, Zenon DEF Printing
<1>5. TypeInv'
  BY <1>1, <1>2, <1>4 DEF TypeInv, Still
<1> QED
  BY <1>3, <1>4, <1>5 DEF IInv

(* Interrupts.                                                             *)
LEMMA HandlerKeeps ==
    ASSUME TypeInv, ConsoleInv, NEW line \in {TIMER, KEYS, 14, 15}, NEW service \in SUBSET (0 .. 15),
           line = KEYS => kbd # NONE, idt_c_handler(line, service),
           UNCHANGED <<channels, stage, imr, handlers, main>>, irr' \subseteq irr,
           KEYS \in irr' => kbd' # NONE
    PROVE  TypeInv' /\ ConsoleInv' /\ CursorStep
<1>1. Handled(line, service)
  BY Handler
<1>2. PICK text : Prints(text)
  BY <1>1 DEF Handled
<1>3. con' \in Consoles /\ seen' \in Histories /\ ConsoleInv' /\ (Visible(con) => Visible(con'))
  BY <1>2, PrintingKeeps
<1>4. /\ isr' \in SUBSET service /\ kbd' \in {kbd, NONE} /\ extended' \in BOOLEAN /\ printing' \in BOOLEAN
      /\ clock' \in Clocks
  BY <1>1 DEF Handled
<1>5. TypeInv'
  BY <1>3, <1>4 DEF TypeInv
<1> QED
  BY <1>3, <1>5 DEF CursorStep

LEMMA KeysAnswered ==
    ASSUME TypeInv, KeysInv, NEW line \in {TIMER, KEYS, 14, 15}, NEW service,
           line = KEYS => kbd # NONE, Answers(line, service)
    PROVE  KeysInv'
<1>0. seen.bytes \in Seq(Bytes) /\ seen.events \in Seq(Events) /\ extended \in BOOLEAN
  BY DEF TypeInv, Histories
<1>1. CASE SameLine
  BY <1>1 DEF KeysInv, SameLine
<1>2. CASE line = KEYS /\ line \in handlers
  <2> DEFINE b == seen.bytes
             e == seen.events
             x == extended
             k == kbd
  <2>1. k \in Bytes
    BY <1>2 DEF TypeInv
  <2>2. /\ (extended' <=> k = PREFIX) /\ seen'.bytes = Append(b, k)
        /\ seen'.events = IF k = PREFIX THEN e ELSE Append(e, KeyEvent(k, x))
    BY <1>2 DEF Answers
  <2>3. Reported(b, e) /\ (x <=> EndsInPrefix(b))
    BY DEF KeysInv
  <2>4. b \in Seq(Bytes) /\ e \in Seq(Events) /\ x \in BOOLEAN
    BY <1>0
  <2> HIDE DEF b, e, x, k
  <2>5. EndsInPrefix(Append(b, k)) <=> k = PREFIX
    BY <2>1, <2>4, Appended DEF IsAppended
  <2>6. CASE k = PREFIX
    <3>1. Reported(Append(b, k), e)
      BY <2>1, <2>3, <2>4, <2>6, ReportedPrefix, SMTT(20)
    <3> QED
      BY <2>2, <2>5, <2>6, <3>1 DEF KeysInv
  <2>7. CASE k # PREFIX
    <3>1. Reported(Append(b, k), Append(e, KeyEvent(k, x)))
      BY <2>1, <2>3, <2>4, <2>7, ReportedKey, SMTT(20)
    <3> QED
      BY <2>2, <2>5, <2>7, <3>1 DEF KeysInv
  <2> QED
    BY <2>6, <2>7
<1>3. SameLine \/ (line = KEYS /\ line \in handlers)
  BY DEF Answers, TIMER, KEYS
<1> QED
  BY <1>1, <1>2, <1>3

LEMMA InterruptStep ==
    ASSUME IInv, NEW line \in {TIMER, KEYS, 14, 15}, Interrupt(line)
    PROVE  IInv' /\ CursorStep
<1>0. TypeInv /\ ConsoleInv /\ LinesInv /\ ClockInv /\ KeysInv
  BY DEF IInv
<1>1. /\ stage = "on" /\ line \in irr /\ irr' = irr \ {line} /\ idt_c_handler(line, Ack(line))
      /\ UNCHANGED <<channels, stage, imr, handlers, main>>
  BY DEF Interrupt, Deliverable
<1>2. line = KEYS => kbd # NONE
  BY <1>0, <1>1 DEF TypeInv
<1>3. LinesInv'
  BY <1>0, InterruptLines
<1>4. Ack(line) \in SUBSET (0 .. 15)
  BY <1>0 DEF Ack, TypeInv, TIMER, KEYS, CASCADE
<1>5. TypeInv' /\ ConsoleInv' /\ CursorStep
  <2>1. KEYS \in irr' => kbd' # NONE
    BY <1>3 DEF LinesInv
  <2>2. irr' \subseteq irr
    BY <1>1
  <2> QED
    BY <1>0, <1>1, <1>2, <1>4, <2>1, <2>2, HandlerKeeps, SMTT(20)
<1>6. Answers(line, Ack(line))
  BY <1>0, <1>1, <1>2, HandlerAnswers
<1>7. KeysInv'
  BY <1>0, <1>2, <1>6, KeysAnswered
<1>8. ClockInv'
  <2>0. clock \in Clocks /\ Counted \in Int /\ seen \in Histories
    BY <1>0, CountedType DEF TypeInv
  <2>1. CASE line = TIMER
    <3>1. line \in handlers
      BY <1>0, <1>1, <2>1, SMTT(20) DEF LinesInv, Lines
    <3>2. clock' = AdvanceClock(clock) /\ seen'.elapsed = seen.elapsed /\ seen'.lost = seen.lost
      BY <1>6, <2>1, <3>1 DEF Answers
    <3>3. Counted' = Counted + 1
      BY <1>1, <2>0, <2>1, <3>2 DEF Counted, Histories
    <3>4. /\ AdvanceClock(clock).tick_count = (Counted + 1) % WORD
          /\ TimeOf(AdvanceClock(clock)) = ((Counted + 1) * Tick) % (WORD * WORD)
      BY <1>0, <2>0, TickCounted DEF ClockInv
    <3> QED
      BY <3>2, <3>3, <3>4 DEF ClockInv, TimeOf
  <2>2. CASE line # TIMER
    <3>1. clock' = clock /\ seen'.elapsed = seen.elapsed /\ seen'.lost = seen.lost
      BY <1>6, <2>2 DEF Answers, TIMER, KEYS
    <3>2. Counted' = Counted
      BY <1>1, <2>2, <3>1 DEF Counted
    <3> QED
      BY <1>0, <3>1, <3>2 DEF ClockInv, TimeOf
  <2> QED
    BY <2>1, <2>2
<1> QED
  BY <1>3, <1>5, <1>7, <1>8 DEF IInv

LEMMA SpuriousStep ==
    ASSUME IInv, SpuriousSlave
    PROVE  IInv' /\ CursorStep
<1>0. TypeInv /\ ConsoleInv /\ LinesInv /\ ClockInv /\ KeysInv
  BY DEF IInv
<1>1. idt_c_handler(15, {CASCADE}) /\ UNCHANGED <<channels, stage, irr, imr, handlers, main>>
  BY DEF SpuriousSlave
<1>2. 15 # KEYS /\ 15 # TIMER /\ {CASCADE} \in SUBSET (0 .. 15)
  BY DEF KEYS, TIMER, CASCADE
<1>3. LinesInv'
  BY <1>0, SpuriousLines
<1>4. KEYS \in irr' => kbd' # NONE
  BY <1>3 DEF LinesInv
<1>5. TypeInv' /\ ConsoleInv' /\ CursorStep
  BY <1>0, <1>1, <1>2, <1>4, HandlerKeeps
<1>6. Answers(15, {CASCADE})
  BY <1>0, <1>1, <1>2, HandlerAnswers
<1>7. KeysInv'
  BY <1>0, <1>2, <1>6, KeysAnswered
<1>8. ClockInv'
  <2>1. clock' = clock /\ seen'.elapsed = seen.elapsed /\ seen'.lost = seen.lost
    BY <1>2, <1>6 DEF Answers
  <2>2. Counted' = Counted
    BY <1>1, <2>1 DEF Counted
  <2> QED
    BY <1>0, <2>1, <2>2 DEF ClockInv, TimeOf
<1> QED
  BY <1>3, <1>5, <1>7, <1>8 DEF IInv

(* The devices raise their lines.                                          *)
LEMMA TimerStep ==
    ASSUME IInv, TimerEdge
    PROVE  IInv' /\ CursorStep
<1>0. TypeInv /\ ConsoleInv /\ LinesInv /\ ClockInv /\ KeysInv /\ seen \in Histories
  BY DEF IInv, TypeInv
<1>1. /\ UNCHANGED <<channels, stage, isr, imr, handlers, kbd, extended, clock, printing, con, main>>
      /\ stage # "boot" /\ irr' = irr \cup {TIMER}
  BY DEF TimerEdge
<1> DEFINE more == IF TIMER \in irr THEN 1 ELSE 0
           late == [seen EXCEPT !.elapsed = @ + 1]
<1>2. late \in Histories /\ late.elapsed = seen.elapsed + 1 /\ late.lost = seen.lost /\ late.torn = seen.torn
      /\ late.paper = seen.paper /\ late.bytes = seen.bytes /\ late.events = seen.events /\ late.early = seen.early
  BY <1>0 DEF Histories
<1>3. seen' = [late EXCEPT !.lost = @ + more]
  BY DEF TimerEdge
<1>4. more \in Nat
  OBVIOUS
<1> HIDE DEF late, more
<1>5. seen' \in Histories /\ seen'.elapsed = late.elapsed /\ seen'.lost = late.lost + more /\ seen'.torn = late.torn
      /\ seen'.paper = late.paper /\ seen'.bytes = late.bytes /\ seen'.events = late.events /\ seen'.early = late.early
  <2>1. late.lost + more \in Nat
    BY <1>2, <1>4 DEF Histories
  <2>2. seen' = [late EXCEPT !.lost = late.lost + more]
    BY <1>3
  <2> DEFINE z == late.lost + more
  <2> HIDE DEF z
  <2>3. z \in Nat /\ seen' = [late EXCEPT !.lost = z]
    BY <2>1, <2>2 DEF z
  <2>4. seen' \in Histories
    BY <1>2, <2>3 DEF Histories
  <2>5. seen'.lost = z
    BY <1>2, <2>3 DEF Histories
  <2>6. seen'.elapsed = late.elapsed /\ seen'.torn = late.torn /\ seen'.early = late.early
        /\ seen'.paper = late.paper /\ seen'.bytes = late.bytes /\ seen'.events = late.events
    BY <1>2, <2>3 DEF Histories
  <2> QED
    BY <2>4, <2>5, <2>6 DEF z
<1>6. TypeInv'
  BY <1>0, <1>1, <1>5 DEF TypeInv, TIMER, KEYS
<1>7. ConsoleInv' /\ CursorStep
  BY <1>0, <1>1, <1>2, <1>5, Quiet, SMTT(20)
<1>8. LinesInv'
  BY <1>0, <1>1, <1>2, <1>5, SMTT(20) DEF LinesInv, Lines, TIMER, KEYS
<1>9. ClockInv'
  <2>1. Counted' = Counted
    <3>1. seen.elapsed \in Nat /\ seen.lost \in Nat
      BY <1>0 DEF Histories
    <3>2. Counted' = seen'.elapsed - seen'.lost - 1
      BY <1>1 DEF Counted
    <3> QED
      BY <1>2, <1>5, <3>1, <3>2 DEF Counted, more
  <2> QED
    BY <1>0, <1>1, <2>1, SMTT(20) DEF ClockInv, TimeOf
<1>10. KeysInv'
  BY <1>0, <1>1, <1>2, <1>5 DEF KeysInv
<1> QED
  BY <1>6, <1>7, <1>8, <1>9, <1>10, SMTT(20) DEF IInv

LEMMA KeyStep ==
    ASSUME IInv, NEW byte \in Codes, KeyByte(byte)
    PROVE  IInv' /\ CursorStep
<1>0. TypeInv /\ ConsoleInv /\ LinesInv /\ ClockInv /\ KeysInv /\ seen \in Histories
  BY DEF IInv, TypeInv
<1>1. /\ UNCHANGED <<channels, stage, isr, imr, handlers, extended, clock, printing, con, main>>
      /\ kbd = NONE /\ kbd' = byte /\ irr' = irr \cup {KEYS} /\ seen' = [seen EXCEPT !.typed = @ + 1]
  BY DEF KeyByte
<1>2. byte \in Bytes /\ byte # NONE
  <2>1. byte \in Bytes
    BY DevicesAssumption, Zenon DEF Bytes
  <2>2. \A b \in Bytes : b # NONE
    <3>1. \A b \in 0 .. 255 : b >= 0
      OBVIOUS
    <3> QED
      BY <3>1 DEF Bytes, NONE
  <2> QED
    BY <2>1, <2>2
<1>3. seen' \in Histories /\ seen'.elapsed = seen.elapsed /\ seen'.lost = seen.lost /\ seen'.torn = seen.torn
      /\ seen'.paper = seen.paper /\ seen'.bytes = seen.bytes /\ seen'.events = seen.events /\ seen'.early = seen.early
  BY <1>0, <1>1, SMTT(20) DEF Histories
<1>4. TypeInv'
  BY <1>0, <1>1, <1>2, <1>3 DEF TypeInv
<1>5. ConsoleInv' /\ CursorStep
  BY <1>0, <1>1, <1>3, Quiet
<1>6. LinesInv'
  BY <1>0, <1>1, <1>2, <1>3 DEF LinesInv, Lines, TIMER, KEYS
<1>7. ClockInv'
  <2>1. Counted' = Counted
    BY <1>1, <1>3 DEF Counted, TIMER, KEYS
  <2> QED
    BY <1>0, <1>1, <2>1 DEF ClockInv, TimeOf
<1>8. KeysInv'
  BY <1>0, <1>1, <1>3 DEF KeysInv
<1> QED
  BY <1>4, <1>5, <1>6, <1>7, <1>8, SMTT(20) DEF IInv

LEMMA DiskStep ==
    ASSUME IInv, NEW line \in {14, 15}, DiskDone(line)
    PROVE  IInv' /\ CursorStep
<1>0. TypeInv /\ ConsoleInv /\ LinesInv /\ ClockInv /\ KeysInv
  BY DEF IInv
<1>1. /\ UNCHANGED <<channels, stage, isr, imr, handlers, kbd, extended, clock, printing, con, main, seen>>
      /\ line \in channels /\ irr' = irr \cup {line}
  BY DEF DiskDone
<1>2. TypeInv'
  BY <1>0, <1>1 DEF TypeInv, KEYS
<1>3. ConsoleInv' /\ CursorStep
  BY <1>0, <1>1, Quiet
<1>4. LinesInv'
  BY <1>0, <1>1 DEF LinesInv, Lines, TIMER, KEYS
<1>5. ClockInv'
  <2>1. Counted' = Counted
    BY <1>1 DEF Counted, TIMER
  <2> QED
    BY <1>0, <1>1, <2>1 DEF ClockInv, TimeOf
<1>6. KeysInv'
  BY <1>0, <1>1, SMTT(20) DEF KeysInv
<1> QED
  BY <1>2, <1>3, <1>4, <1>5, <1>6 DEF IInv

(* Start-up.                                                               *)
LEMMA CpuInitStep ==
    ASSUME IInv, cpu_init
    PROVE  IInv' /\ CursorStep
<1>0. TypeInv /\ ConsoleInv /\ LinesInv /\ ClockInv /\ KeysInv /\ seen \in Histories
  BY DEF IInv, TypeInv
<1>1. /\ UNCHANGED <<channels, handlers, kbd, extended, clock, printing, con, main>>
      /\ stage = "boot" /\ stage' = "timer" /\ irr' = {} /\ isr' = {} /\ imr' = (0 .. 15) \ {CASCADE}
      /\ seen' = [seen EXCEPT !.early = kbd # NONE]
  BY DEF cpu_init, setup_pic, pic_remap
<1>2. seen' \in Histories /\ seen'.elapsed = seen.elapsed /\ seen'.lost = seen.lost /\ seen'.torn = seen.torn
      /\ seen'.paper = seen.paper /\ seen'.bytes = seen.bytes /\ seen'.events = seen.events
      /\ (seen'.early <=> kbd # NONE)
  <2> DEFINE w == kbd # NONE
  <2>1. w \in BOOLEAN /\ seen' = [seen EXCEPT !.early = w]
    BY <1>1
  <2> HIDE DEF w
  <2>2. seen' \in Histories
    BY <1>0, <2>1 DEF Histories
  <2>3. seen'.elapsed = seen.elapsed /\ seen'.lost = seen.lost /\ seen'.torn = seen.torn
        /\ seen'.paper = seen.paper /\ seen'.bytes = seen.bytes /\ seen'.events = seen.events
        /\ seen'.early = w
    BY <1>0, <2>1 DEF Histories
  <2> QED
    BY <2>2, <2>3, Zenon DEF w
<1>3. TypeInv'
  BY <1>0, <1>1, <1>2 DEF TypeInv
<1>4. ConsoleInv' /\ CursorStep
  BY <1>0, <1>1, <1>2, Quiet
<1>5. LinesInv'
  <2>1. Lines = {} /\ Lines' = {}
    BY <1>1 DEF Lines
  <2> QED
    BY <1>0, <1>1, <1>2, <2>1 DEF LinesInv, CASCADE
<1>6. ClockInv'
  <2>1. TIMER \notin irr
    BY <1>0, <1>1 DEF LinesInv
  <2>2. Counted' = Counted
    BY <1>1, <1>2, <2>1 DEF Counted
  <2> QED
    BY <1>0, <1>1, <2>2 DEF ClockInv, TimeOf
<1>7. KeysInv'
  BY <1>0, <1>1, <1>2 DEF KeysInv
<1> QED
  BY <1>3, <1>4, <1>5, <1>6, <1>7 DEF IInv

LEMMA RegisterStep ==
    ASSUME IInv, init_int_timer \/ init_keyboard \/ init_storage
    PROVE  IInv' /\ CursorStep
<1>0. TypeInv /\ ConsoleInv /\ LinesInv /\ ClockInv /\ KeysInv
  BY DEF IInv
<1>1. PICK from, to, lines :
        /\ Register(from, to, lines)
        /\ lines \in SUBSET {TIMER, KEYS, 14, 15}
        /\ \/ from = "timer" /\ to = "keyboard" /\ lines = {TIMER}
           \/ from = "keyboard" /\ to = "storage" /\ lines = {KEYS}
           \/ from = "storage" /\ to = "on" /\ lines = channels
  <2>1. channels \subseteq {14, 15}
    BY <1>0 DEF TypeInv
  <2> QED
    BY <2>1, Zenon DEF init_int_timer, init_keyboard, init_storage
<1>2. /\ stage = from /\ imr' = imr \ lines /\ handlers' = handlers \cup lines /\ stage' = to
      /\ UNCHANGED <<channels, irr, isr, kbd, extended, clock, printing, con, main, seen>>
  BY <1>1 DEF Register, pic_unmask_vector
<1>3. TypeInv'
  BY <1>0, <1>1, <1>2, Zenon DEF TypeInv
<1>4. ConsoleInv' /\ CursorStep
  BY <1>0, <1>2, Quiet
<1>5. LinesInv'
  <2>1. Lines' = Lines \cup lines
    BY <1>1, <1>2 DEF Lines
  <2>2. stage # "boot" /\ stage # "on" /\ stage' # "boot"
    BY <1>1, <1>2
  <2>3. lines \subseteq 0 .. 15
    BY <1>1 DEF TIMER, KEYS
  <2>4. (0 .. 15) \ imr' = ((0 .. 15) \ imr) \cup lines
    BY <1>2, <2>3, Zenon
  <2>5. (0 .. 15) \ imr' = Lines' \cup {CASCADE}
    BY <1>0, <2>1, <2>2, <2>4 DEF LinesInv
  <2>6. handlers' = Lines'
    BY <1>0, <1>2, <2>1 DEF LinesInv
  <2> QED
    BY <1>0, <1>2, <2>2, <2>5, <2>6 DEF LinesInv
<1>6. ClockInv'
  BY <1>0, <1>2 DEF ClockInv, Counted, TimeOf
<1>7. KeysInv'
  BY <1>0, <1>2 DEF KeysInv
<1> QED
  BY <1>3, <1>4, <1>5, <1>6, <1>7 DEF IInv

LEMMA InitInv ==
    ASSUME Init
    PROVE  IInv
<1>1. TypeInv
  <2>1. con \in Consoles
    BY DEF Init, Consoles, Index, Glyphs
  <2>2. main \in Mains
    BY DevicesAssumption, SMTT(20) DEF Init, Mains, Places, Glyphs
  <2>3. clock \in Clocks
    BY Sizes, SMTT(20) DEF Init, Clocks, Words
  <2>4. seen \in Histories
    <3>1. <<<<>>>> \in Papers
      BY EmptyPaper
    <3>2. <<>> \in Seq(Bytes) /\ <<>> \in Seq(Events)
      BY SMTT(20)
    <3> DEFINE p == <<<<>>>>
    <3>3. seen = [bytes |-> <<>>, events |-> <<>>, elapsed |-> 0, lost |-> 0, early |-> FALSE,
                  paper |-> p, torn |-> FALSE, typed |-> 0]
      BY DEF Init
    <3>4. p \in Papers
      BY <3>1, SMTT(20)
    <3> HIDE DEF p
    <3> QED
      BY <3>2, <3>3, <3>4 DEF Histories
  <2>5. channels \in SUBSET {14, 15}
    BY DevicesAssumption DEF Init
  <2> QED
    BY <2>1, <2>2, <2>3, <2>4, <2>5, Zenon DEF Init, TypeInv
<1>2. ConsoleInv
  <2>1. main.pc = "idle" /\ con.row = 0 /\ con.column = 0 /\ (\A i \in Index : con.cells[i] = Blank)
    BY SMTT(20) DEF Init, Index
  <2>2. seen.paper = <<<<>>>>
    BY DEF Init
  <2> DEFINE p == seen.paper
  <2>3. p \in Papers /\ Len(p) = 1 /\ p[1] = <<>> /\ Len(p[1]) = 0
    BY <2>2, EmptyPaper
  <2> HIDE DEF p
  <2>4. CellsShow(con, p)
    <3> SUFFICES ASSUME NEW row \in 0 .. VGA_HEIGHT - 1, NEW column \in 0 .. VGA_WIDTH - 1
                 PROVE  con.cells[row * VGA_WIDTH + column] = GlyphAt(p, row, column)
      BY DEF CellsShow
    <3>1. row * VGA_WIDTH + column \in Index
      <4>1. row \in 0 .. VGA_HEIGHT
        BY Sizes
      <4> QED
        BY <4>1, InIndex
    <3>2. ~ (row < Len(p) /\ column < Len(p[row + 1]))
      BY <2>3, Sizes
    <3>3. GlyphAt(p, row, column) = Blank
      BY <3>2, Zenon DEF GlyphAt
    <3> QED
      BY <2>1, <3>1, <3>3
  <2>5. Shows(con, p)
    BY <2>1, <2>3, <2>4, Sizes DEF Shows, ShowsLines, Fits
  <2> QED
    BY <2>1, <2>5, SMTT(20) DEF ConsoleInv, WillShow, p
<1>3. LinesInv
  BY DEF Init, LinesInv, Lines, TIMER, KEYS, CASCADE
<1>4. ClockInv
  <2>0. seen.elapsed = 0 /\ seen.lost = 0 /\ irr = {} /\ clock.tick_count = 0
        /\ clock.system_timer_ms = 0 /\ clock.fractions = 0
    <3>1. clock = [system_timer_ms |-> 0, fractions |-> 0, tick_count |-> 0] /\ irr = {}
      BY Zenon DEF Init
    <3>2. seen = [bytes |-> <<>>, events |-> <<>>, elapsed |-> 0, lost |-> 0, early |-> FALSE,
                  paper |-> <<<<>>>>, torn |-> FALSE, typed |-> 0]
      BY Zenon DEF Init
    <3>3. seen.elapsed = 0 /\ seen.lost = 0
      BY <3>2
    <3> QED
      BY <3>1, <3>3
  <2>1. Counted = 0
    <3>1. TIMER \notin irr
      BY <2>0
    <3>2. Counted = 0 - 0 - 0
      BY <2>0, <3>1, Zenon DEF Counted
    <3> QED
      BY <3>2
  <2>2. clock.tick_count = 0 /\ TimeOf(clock) = 0
    BY <2>0, Sizes DEF TimeOf
  <2>3. 0 % WORD = 0 /\ 0 * Tick = 0 /\ WORD * WORD \in Nat \ {0}
    BY Sizes
  <2>4. 0 % (WORD * WORD) = 0
    <3> DEFINE V == WORD * WORD
    <3>1. V \in Nat \ {0}
      BY <2>3
    <3> HIDE DEF V
    <3>2. 0 % V = 0
      BY <3>1
    <3> QED
      BY <3>2 DEF V
  <2> QED
    BY <2>1, <2>2, <2>3, <2>4, SMTT(20) DEF ClockInv
<1>5. KeysInv
  <2>1. seen.bytes = <<>> /\ seen.events = <<>> /\ extended = FALSE
    BY DEF Init
  <2>2. Keys(<<>>) = {} /\ ~ EndsInPrefix(<<>>) /\ Len(<<>>) = 0
    BY DEF Keys, EndsInPrefix
  <2>3. Reported(<<>>, <<>>)
    BY <2>2, FS_EmptySet, Zenon DEF Reported
  <2> QED
    BY <2>1, <2>2, <2>3, SMTT(20) DEF KeysInv
<1> QED
  BY <1>1, <1>2, <1>3, <1>4, <1>5, SMTT(20) DEF IInv

LEMMA NextInv ==
    ASSUME IInv, [Next]_vars
    PROVE  IInv' /\ CursorStep
<1>1. CASE Main
  <2>1. CASE Printing
    BY <2>1, PrintingStep
  <2>2. CASE cpu_init
    BY <2>2, CpuInitStep
  <2>3. CASE init_int_timer \/ init_keyboard \/ init_storage
    BY <2>3, RegisterStep
  <2> QED
    BY <1>1, <2>1, <2>2, <2>3, Zenon DEF Main, Printing
<1>2. ASSUME NEW line \in {TIMER, KEYS, 14, 15}, Interrupt(line) PROVE IInv' /\ CursorStep
  BY <1>2, InterruptStep, SMTT(20)
<1>3. CASE SpuriousSlave
  BY <1>3, SpuriousStep
<1>4. CASE TimerEdge
  BY <1>4, TimerStep
<1>5. ASSUME NEW byte \in Codes, KeyByte(byte) PROVE IInv' /\ CursorStep
  BY <1>5, KeyStep
<1>6. ASSUME NEW line \in {14, 15}, DiskDone(line) PROVE IInv' /\ CursorStep
  BY <1>6, DiskStep
<1>7. CASE UNCHANGED vars
  <2>1. Still /\ UNCHANGED <<con, main, seen>>
    BY <1>7 DEF vars, Still
  <2>2. LinesInv' /\ ClockInv' /\ KeysInv'
    BY <2>1, StillKeeps DEF IInv
  <2>3. ConsoleInv' /\ CursorStep
    BY <2>1, Quiet, SMTT(20) DEF IInv
  <2>4. TypeInv'
    BY <2>1 DEF IInv, TypeInv, Still
  <2> QED
    BY <2>2, <2>3, <2>4, SMTT(20) DEF IInv
<1> QED
  BY <1>1, <1>2, <1>3, <1>4, <1>5, <1>6, <1>7 DEF Next

(* The invariant holds in every reachable state.                           *)
LEMMA Invariance == Spec => []IInv
<1>1. Init => IInv
  BY InitInv
<1>2. IInv /\ [Next]_vars => IInv'
  BY NextInv
<1> QED
  BY <1>1, <1>2, PTL DEF Spec

-----------------------------------------------------------------------------
(* The screen shows what was printed, on a screen of any size: handlers    *)
(* that interrupt main between two characters and main's own steps through *)
(* terminal_putchar, terminal_nextline and terminal_scroll agree with the  *)
(* ideal terminal until a handler prints inside a character.               *)
THEOREM ScreenIsExact == Spec => []ConsoleExact
<1>1. IInv => ConsoleExact
  <2> SUFFICES ASSUME IInv, main.pc = "idle", ~ seen.torn
               PROVE  /\ con.row = Len(seen.paper) - 1
                      /\ con.column = Len(seen.paper[Len(seen.paper)])
                      /\ \A row \in 0 .. VGA_HEIGHT - 1, column \in 0 .. VGA_WIDTH - 1 :
                            con.cells[row * VGA_WIDTH + column] =
                                IF row < Len(seen.paper) /\ column < Len(seen.paper[row + 1])
                                THEN seen.paper[row + 1][column + 1] ELSE Blank
    BY SMTT(20) DEF ConsoleExact
  <2>1. Shows(con, seen.paper)
    BY DEF IInv, ConsoleInv, WillShow
  <2> QED
    BY <2>1, Zenon DEF Shows, ShowsLines, CellsShow, GlyphAt
<1> QED
  BY <1>1, Invariance, PTL

(* No step puts the cursor off the screen but main's store of a column or  *)
(* a row that it read before a handler printed.                            *)
THEOREM CursorLeavesOnlyByStaleStore == Spec => CursorLeavesByStaleStore
<1>1. IInv /\ [Next]_vars =>
        [OnScreen /\ ~OnScreen' => main.pc \in {"store_column", "store_row"} /\ seen.torn]_vars
  BY NextInv, SMTT(20) DEF CursorStep, Visible, OnScreen
<1> QED
  BY <1>1, Invariance, PTL DEF Spec, CursorLeavesByStaleStore

(* The counters of pit_timer_dispatch are those of the edges it was given, *)
(* modulo one and two words of any width, with any length of a tick, and   *)
(* the reload value and the frequency of any rate are rounded exactly.     *)
THEOREM ClockIsExact == Spec => []ClockExact
<1>1. IInv => ClockExact
  <2> SUFFICES ASSUME IInv PROVE ClockExact
    OBVIOUS
  <2>1. /\ clock.tick_count = Counted % WORD
        /\ clock.system_timer_ms * WORD + clock.fractions = (Counted * Tick) % (WORD * WORD)
    BY DEF IInv, ClockInv, TimeOf
  <2>2. \A hz \in Rates : RateExact(hz, pit_reload_value(hz))
    BY DevicesAssumption, RatesExact, SMTT(20)
  <2> QED
    BY <2>1, <2>2, SMT DEF ClockExact, RateExact
<1> QED
  BY <1>1, Invariance, PTL

(* ps2_key_dispatch reports each byte but the prefix once, in order, and   *)
(* decodes it by whether the prefix came just before it.                   *)
THEOREM KeysAreExact == Spec => []KeysExact
<1>1. IInv => KeysExact
  BY DEF IInv, KeysInv, Reported, Keys, UpTo, KeysExact
<1> QED
  BY <1>1, Invariance, PTL

(* Every handler ends what it began on the controllers, whatever lines and *)
(* drives there are; a spurious interrupt can leave the cascade only.      *)
THEOREM NothingStaysInService == Spec => []NothingInService
<1>1. IInv => NothingInService
  BY DEF IInv, LinesInv, Lines, NothingInService
<1> QED
  BY <1>1, Invariance, PTL
=============================================================================

