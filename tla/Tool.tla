-------------------------------- MODULE Tool --------------------------------
(***************************************************************************)
(* cmd/goodwe/main.go, the command line tool, as a user of the library:    *)
(* Discover, Connect, GetInfo, and then what its flags ask for.  mode is   *)
(* "info" for -info, "read" for -readsensor, "poll" for -poll with or      *)
(* without -readsensor, "none" without these flags.  In mode "library" the *)
(* user is another program, which calls GetSensors and ReadSensor in any   *)
(* order (the daemon and its HTTP handlers do).                            *)
(***************************************************************************)
EXTENDS Inverter

CONSTANT
    Requested    \* the values of -readsensor to try: sequences of names

ASSUME RequestedAssumption == Requested \subseteq Seq(Names \cup {Unknown})

VARIABLES
    mode, names, \* the flags
    pc,          \* where main is
    todo,        \* the names left in the loop over them
    printed,     \* the sensors printed, in this round of polling
    open,        \* there is a connection, and with it the deferred Close
    status       \* the exit status, "none" before the end

toolVars == <<mode, names, pc, todo, printed, open, status>>
vars == <<inverterVars, toolVars>>

Modes == {"info", "read", "poll", "none", "library"}

\* The names that a mode goes through; -info shows the work mode.
NamesOf(m) ==
    CASE m = "read" -> {r \in Requested : r # <<>>}
      [] m = "poll" -> Requested
      [] m = "info" -> {<<"work_mode_label">>}
      [] OTHER -> {<<>>}

Init ==
    /\ InverterInit
    /\ mode \in Modes /\ names \in NamesOf(mode)
    /\ pc = "discover" /\ todo = <<>> /\ printed = <<>> /\ open = FALSE /\ status = "none"

Exit(code) == status' = code /\ pc' = "exited"

Discover ==
    /\ pc = "discover"
    /\ \/ DiscoverOk /\ pc' = "connect" /\ UNCHANGED status
       \/ DiscoverFails /\ Exit("1")
    /\ UNCHANGED <<deviceVars, cancelled, op, step, failed, readings, answerVars>>
    /\ UNCHANGED <<mode, names, todo, printed, open>>

Connect ==
    /\ pc = "connect"
    /\ \/ open' = TRUE /\ pc' = (IF mode = "library" THEN "free" ELSE "info") /\ UNCHANGED status
       \/ open' = FALSE /\ Exit("1")
    /\ UNCHANGED <<inverterVars, mode, names, todo, printed>>

\* GetInfo, whose error is only logged.
Info ==
    /\ pc = "info" /\ pc' = "flags"
    /\ CallGetInfo
    /\ UNCHANGED <<mode, names, todo, printed, open, status>>

\* Behind GetInfo the flags decide.
Flags ==
    /\ pc = "flags" /\ Idle
    /\ pc' = CASE mode = "poll" -> "select" [] mode = "none" -> "return" [] OTHER -> "reading"
    /\ todo' = names
    /\ UNCHANGED <<inverterVars, mode, names, printed, open, status>>

ReadNext ==
    /\ pc = "reading" /\ todo # <<>> /\ pc' = "wait"
    /\ CallReadSensor(Head(todo))
    /\ UNCHANGED <<mode, names, todo, printed, open, status>>

\* Mutant of ReadError: a sensor that cannot be read is passed over.
ReadErrorPassed ==
    /\ single.error
    /\ pc' = "reading" /\ todo' = Tail(todo) /\ UNCHANGED <<printed, status>>

\* Mutant of ReadError: it ends the program in any mode.
ReadErrorExits ==
    /\ single.error
    /\ Exit("1") /\ UNCHANGED <<todo, printed>>

\* An error ends the single read; polling and -info go on.
ReadError ==
    /\ single.error
    /\ \/ mode = "read" /\ Exit("1") /\ UNCHANGED <<todo, printed>>
       \/ mode # "read" /\ pc' = "reading" /\ todo' = Tail(todo) /\ UNCHANGED <<printed, status>>

ReadPrinted ==
    /\ ~single.error
    /\ pc' = "reading" /\ todo' = Tail(todo)
    /\ printed' = Append(printed, [name |-> Head(todo), value |-> single.value])
    /\ UNCHANGED status

ReadReturned ==
    /\ pc = "wait" /\ Idle
    /\ ReadError \/ ReadPrinted
    /\ UNCHANGED <<inverterVars, mode, names, open>>

\* Behind the last sensor: os.Exit, which runs no deferred function, or the
\* next round.
ReadDone ==
    /\ pc = "reading" /\ todo = <<>>
    /\ \/ mode = "poll" /\ pc' = "select" /\ UNCHANGED status
       \/ mode # "poll" /\ Exit("0")
    /\ UNCHANGED <<inverterVars, mode, names, todo, printed, open>>

\* The select of the polling loop.  The interval may be over when the
\* context is done as well; Go then picks one of the two at random.
SelectTimer ==
    /\ pc = "select" /\ pc' = "reading"
    /\ todo' = names /\ printed' = <<>>
    /\ UNCHANGED <<inverterVars, mode, names, open, status>>

\* Mutant of SelectDone: it waits for the timer alone.
SelectDoneNever == FALSE /\ UNCHANGED vars

SelectDone ==
    /\ pc = "select" /\ cancelled /\ pc' = "return"
    /\ UNCHANGED <<inverterVars, mode, names, todo, printed, open, status>>

\* main returns, through the deferred Close.
Return ==
    /\ pc = "return" /\ open' = FALSE /\ Exit("0")
    /\ UNCHANGED <<inverterVars, mode, names, todo, printed>>

\* SIGINT or SIGTERM; its goroutine cancels the context.
Signal == status = "none" /\ Cancel /\ UNCHANGED toolVars

\* Another program that uses the library.
LibraryCall ==
    /\ pc = "free"
    /\ CallGetSensors \/ \E s \in Names \cup {Unknown} : CallReadSensor(s)
    /\ UNCHANGED toolVars

CallStep == Transaction /\ UNCHANGED toolVars

Main ==
    \/ Discover \/ Connect \/ Info \/ Flags \/ ReadNext \/ ReadReturned \/ ReadDone
    \/ SelectTimer \/ SelectDone \/ Return

Next == Main \/ CallStep \/ Signal \/ LibraryCall

\* main runs on; a transaction ends by its deadline; a select that finds the
\* context done again and again does not pass it over for ever.
FairSpec ==
    /\ Init /\ [][Next]_vars
    /\ WF_vars(Main) /\ WF_vars(CallStep) /\ SF_vars(SelectDone)

-----------------------------------------------------------------------------
(* Properties.                                                             *)

\* Exit status 0 of -readsensor promises that each requested sensor was
\* printed, in order, with the value it has in the registers that the device
\* serves of its block (main.go: the loop "Single read", which exits with 1 at
\* the first error), whatever was read before it and by whatever fallbacks.
StatusTruthful == (mode = "read" /\ status = "0") =>
    /\ Len(printed) = Len(names)
    /\ \A i \in DOMAIN names :
         /\ printed[i].name = names[i] /\ names[i] \in Names
         /\ LET b == Registers[names[i]].block IN
              /\ device.served[b] > 0
              /\ printed[i].value = Calculator(names[i], Block(b, device.served[b]))

\* Polling that ends leaves no connection behind: whatever sensor could not
\* be read and whenever the signal came, main gets to its deferred Close.
PollCloses == (mode = "poll" /\ status # "none") => ~open

\* The tool ends by itself unless it polls, and a signal ends polling (main.go:
\* the goroutine on sigChan, the select on ctx.Done).
ToolEnds == (mode # "library" /\ (mode # "poll" \/ cancelled)) ~> (status # "none")
=============================================================================
