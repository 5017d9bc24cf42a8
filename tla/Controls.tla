------------------------------ MODULE Controls ------------------------------
(***************************************************************************)
(* InputHandler and the shop's window: what an event of the keyboard or    *)
(* the mouse does on each screen.  A flag remembers that a key's press has *)
(* been handled, so that its repetition is not; the left button has one    *)
(* flag for the shop and one for the weapon.  Only the keys in Inputs are  *)
(* pressed; those of a kind behave alike.                                  *)
(***************************************************************************)
EXTENDS Naturals, Sequences

CONSTANTS
    Inputs,         \* keys and buttons of the player
    Items,          \* what the shop sells
    MaxCommands,    \* bound: commands waiting to be sent
    MaxEvents       \* bound: new presses and motions of a session

\* What is sold is no key: buying is a command of its own type.
ASSUME ControlsAssumption ==
    /\ MaxCommands \in Nat \ {0} /\ MaxEvents \in Nat
    /\ Items \cap Inputs = {}

VARIABLES
    down,           \* inputs held down, whoever looks at them
    flags,          \* the flags of InputHandler that are set
    shopOpen,       \* Shop::open
    events,         \* new presses and motions so far
    commands,       \* ClientSender::queue
    commandsClosed

inputVars == <<down, flags, shopOpen, events>>
controlVars == <<inputVars, commands, commandsClosed>>

Moves == {"w", "a", "s", "d"} \cap Inputs
Weapons == {"one", "two", "three", "four"} \cap Inputs
Fights == {"attack", "ended"}

Command(i, on) == [input |-> i, on |-> on]
CommandsOf(S) == [input : S, on : BOOLEAN]
Flags == (Inputs \ {"left"}) \cup {"click_buy", "click_attack"}

Flag(screen, i) ==
    IF i # "left" THEN i ELSE IF screen = "buy" THEN "click_buy" ELSE "click_attack"

ControlsInit ==
    /\ down = {} /\ flags = {} /\ shopOpen = FALSE /\ events = 0
    /\ commands = <<>> /\ commandsClosed = FALSE

ForceStart == {"k"}
PickUp == {"f"}
ShootOrDefuse == {"left", "e"} \cap Inputs

\* What a screen listens to; Escape, B and the shop's clicks come apart.
Heard(screen) ==
    CASE screen = "waiting" -> ForceStart
      [] screen = "buy" -> Weapons
      [] screen \in Fights -> Weapons \cup Moves \cup ShootOrDefuse \cup PickUp

\* Inputs whose release is told to the server as well.
Holds == Moves \cup ShootOrDefuse

\* Mutant: nobody looks at the flags.
NothingIsHandled(screen, i) == FALSE

IsHandled(screen, i) == Flag(screen, i) \in flags

Push(c) ==
    /\ ~commandsClosed /\ Len(commands) < MaxCommands
    /\ commands' = Append(commands, c)

-----------------------------------------------------------------------------
(***************************************************************************)
(* Events.  Each is what one turn of an SDL_PollEvent loop does; a push to *)
(* a closed queue throws and is in Client.                                 *)
(***************************************************************************)
Happens == events < MaxEvents /\ events' = events + 1

\* A press that was handled before, or a key's repetition, changes nothing.
Press(screen, i) ==
    /\ Happens /\ i \notin down /\ down' = down \cup {i}
    /\ <<screen, i>> # <<"buy", "left">>
    /\ IF i \in Heard(screen) /\ ~IsHandled(screen, i)
         THEN flags' = flags \cup {Flag(screen, i)} /\ Push(Command(i, TRUE))
         ELSE UNCHANGED <<flags, commands>>
    /\ UNCHANGED <<shopOpen, commandsClosed>>

Release(screen, i) ==
    /\ i \in down /\ down' = down \ {i}
    /\ flags' = IF i \in Heard(screen) \/ (screen = "buy" /\ i = "left")
                  THEN flags \ {Flag(screen, i)} ELSE flags
    /\ IF i \in Heard(screen) \cap Holds /\ IsHandled(screen, i)
         THEN Push(Command(i, FALSE)) ELSE UNCHANGED commands
    /\ UNCHANGED <<shopOpen, events, commandsClosed>>

\* A key held since before is pressed again by its repetition.
Repeat(screen, i) ==
    /\ i \in down \ {"left"} /\ i \in Heard(screen)
    /\ ~IsHandled(screen, i)
    /\ flags' = flags \cup {i} /\ Push(Command(i, TRUE))
    /\ UNCHANGED <<down, shopOpen, events, commandsClosed>>

\* handle_mouse_motion_event: every motion is a command.
Aim(screen) ==
    /\ Happens /\ screen \in Fights
    /\ Push(Command("mouse", TRUE))
    /\ UNCHANGED <<down, flags, shopOpen, commandsClosed>>

OpenOrCloseShop(screen) ==
    /\ screen = "buy"
    /\ shopOpen' = ~shopOpen
    /\ UNCHANGED <<down, flags, events, commands, commandsClosed>>

(***************************************************************************)
(* The click may meet the icon that opens, the cross that closes, an item  *)
(* that is affordable and not owned, or nothing that answers.              *)
(***************************************************************************)
InteractButton ==
    \/ UNCHANGED <<shopOpen, commands>>
    \/ shopOpen' = ~shopOpen /\ UNCHANGED commands
    \/ shopOpen /\ (\E g \in Items : Push(Command(g, TRUE))) /\ UNCHANGED shopOpen

\* Held since before, the button is not a click.
Click(screen) ==
    /\ Happens /\ screen = "buy"
    /\ "left" \in Inputs \ down /\ down' = down \cup {"left"}
    /\ flags' = flags \cup {"click_buy"}
    /\ IF "click_buy" \in flags THEN UNCHANGED <<shopOpen, commands>>
                                ELSE InteractButton
    /\ UNCHANGED commandsClosed

\* close_shop, when the phase ends.
ShopClosed == shopOpen' = FALSE

=============================================================================
