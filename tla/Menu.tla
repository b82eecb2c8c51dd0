-------------------------------- MODULE Menu --------------------------------
(***************************************************************************)
(* menu.c with the commands and the idle display of ReflowOven.c that it   *)
(* calls: one event handler at a time, the selected item, and the stack    *)
(* MenuLevels of the items through which the present menu was reached.     *)
(* An action is the handling of one button event; the main loop hands      *)
(* events to the menu only while no run is in progress.                    *)
(***************************************************************************)
EXTENDS MenuTables

CONSTANT LevelCap     \* bound of the model: submenus opened and not left again

ASSUME LevelCapAssumption == LevelCap \in 1..255

VARIABLES
    PointerToCurrentEventHandler,     \* "idle" or "menu"
    CurrentMenuTable,
    CurrentMenuItemIdx,
    MenuLevels,
    CurrentMenuLevel,
    currentProfile,
    showTemp,              \* the temperature is written on the display
    isRunning

stackVars == <<MenuLevels, CurrentMenuLevel>>
placeVars == <<PointerToCurrentEventHandler, CurrentMenuTable, CurrentMenuItemIdx>>
vars == <<placeVars, stackVars, currentProfile, showTemp, isRunning>>

(* CurrentMenuTable is a null pointer until the main menu is displayed. *)
Init ==
    /\ PointerToCurrentEventHandler = "idle"
    /\ CurrentMenuTable = "none" /\ CurrentMenuItemIdx = 0
    /\ MenuLevels = [level \in 0..(LevelCap - 1) |-> 0]
    /\ CurrentMenuLevel = 0
    /\ currentProfile = 1
    /\ showTemp = TRUE
    /\ isRunning = FALSE

-----------------------------------------------------------------------------
(* Mutated form: the profile list starts at the item it was opened with. *)
MenuDisplayPlain(menu, idx) ==
    /\ CurrentMenuTable' = menu
    /\ CurrentMenuItemIdx' = idx
    /\ PointerToCurrentEventHandler' = "menu"

MenuDisplay(menu, idx) ==
    /\ CurrentMenuTable' = menu
    /\ CurrentMenuItemIdx' = IF menu = "SelectProfileMenu" THEN currentProfile ELSE idx
    /\ PointerToCurrentEventHandler' = "menu"

SetIdleMode ==
    /\ showTemp' = TRUE
    /\ PointerToCurrentEventHandler' = "idle"

MenuChangeSelection(idx) ==
    CurrentMenuItemIdx' =
        IF idx \in 1..Size(CurrentMenuTable) THEN idx ELSE CurrentMenuItemIdx

-----------------------------------------------------------------------------
(* IdleDisplayEventHandler: MENU opens the main menu. *)
OpenMainMenu ==
    /\ ~isRunning /\ PointerToCurrentEventHandler = "idle"
    /\ showTemp' = FALSE
    /\ MenuDisplay("MainMenu", 1)
    /\ UNCHANGED <<stackVars, currentProfile, isRunning>>

(* MenuDisplayEventHandler. *)
InMenus == ~isRunning /\ PointerToCurrentEventHandler = "menu"

UpDown ==
    /\ InMenus
    /\ \E idx \in {(CurrentMenuItemIdx + 255) % 256, (CurrentMenuItemIdx + 1) % 256} :
          MenuChangeSelection(idx)
    /\ UNCHANGED <<PointerToCurrentEventHandler, CurrentMenuTable, stackVars,
                   currentProfile, showTemp, isRunning>>

CurrentItem == Items(CurrentMenuTable)[CurrentMenuItemIdx]

(* Mutated form: the first item of the menu is stored for the selected one. *)
EnterSubMenuAtFirst ==
    /\ InMenus
    /\ CurrentItem.type = "SUB_MENU"
    /\ CurrentMenuLevel < LevelCap
    /\ MenuLevels' = [MenuLevels EXCEPT ![CurrentMenuLevel] = 1]
    /\ CurrentMenuLevel' = CurrentMenuLevel + 1
    /\ MenuDisplay(CurrentItem.target, 1)
    /\ UNCHANGED <<currentProfile, showTemp, isRunning>>

EnterSubMenu ==
    /\ InMenus
    /\ CurrentItem.type = "SUB_MENU"
    /\ CurrentMenuLevel < LevelCap
    /\ MenuLevels' = [MenuLevels EXCEPT ![CurrentMenuLevel] = CurrentMenuItemIdx]
    /\ CurrentMenuLevel' = CurrentMenuLevel + 1
    /\ MenuDisplay(CurrentItem.target, 1)
    /\ UNCHANGED <<currentProfile, showTemp, isRunning>>

(* Mutated form: the command leaves the display to the menu. *)
EnterRunHidden ==
    /\ InMenus
    /\ CurrentItem \in {Command(run) : run \in Runs}
    /\ isRunning' = TRUE
    /\ UNCHANGED <<placeVars, stackVars, currentProfile, showTemp>>

(* The commands that start a run; the other two do nothing yet. *)
EnterRun ==
    /\ InMenus
    /\ CurrentItem \in {Command(run) : run \in Runs}
    /\ showTemp' = TRUE
    /\ isRunning' = TRUE
    /\ UNCHANGED <<placeVars, stackVars, currentProfile>>

SelectProfileCommand ==
    /\ InMenus
    /\ CurrentItem = Command("SelectProfile")
    /\ currentProfile' = CurrentMenuItemIdx
    /\ UNCHANGED <<placeVars, stackVars, showTemp, isRunning>>

LeaveMainMenu ==
    /\ InMenus
    /\ CurrentMenuTable = "MainMenu"
    /\ SetIdleMode
    /\ UNCHANGED <<CurrentMenuTable, CurrentMenuItemIdx, stackVars, currentProfile,
                   isRunning>>

LeaveSubMenu ==
    /\ InMenus
    /\ CurrentMenuTable # "MainMenu"
    /\ CurrentMenuLevel' = (CurrentMenuLevel + 255) % 256
    /\ MenuDisplay(Parent(CurrentMenuTable), MenuLevels[CurrentMenuLevel'])
    /\ UNCHANGED <<MenuLevels, currentProfile, showTemp, isRunning>>

(* Every run ends in SetIdleMode, called by its handler or by the main loop *)
(* after MENU; neither touches the stack.                                   *)
EndRun ==
    /\ isRunning
    /\ isRunning' = FALSE
    /\ SetIdleMode
    /\ UNCHANGED <<CurrentMenuTable, CurrentMenuItemIdx, stackVars, currentProfile>>

Next ==
    \/ OpenMainMenu
    \/ UpDown
    \/ EnterSubMenu
    \/ EnterRun
    \/ SelectProfileCommand
    \/ LeaveMainMenu
    \/ LeaveSubMenu
    \/ EndRun

Spec == Init /\ [][Next]_vars

-----------------------------------------------------------------------------
(* Every variable keeps its type. *)
TypeOK ==
    /\ PointerToCurrentEventHandler \in {"idle", "menu"}
    /\ CurrentMenuTable \in Menus \cup {"none"}
    /\ CurrentMenuItemIdx \in 0..255
    /\ MenuLevels \in [0..(LevelCap - 1) -> 0..255]
    /\ CurrentMenuLevel \in 0..LevelCap
    /\ currentProfile \in 1..ProfileCount
    /\ showTemp \in BOOLEAN
    /\ isRunning \in BOOLEAN

(* The selected item is always an item of the menu displayed, never its     *)
(* header and never what lies behind its end, on whatever path it was       *)
(* reached and whatever runs were started and ended in between.             *)
ItemExists ==
    PointerToCurrentEventHandler = "menu" =>
        CurrentMenuItemIdx \in 1..Size(CurrentMenuTable)

(* The levels the present menu needs are on the stack: the top entry is the *)
(* item that opened it, and the one below opened the menu it hangs from.    *)
(* Entries that runs have left behind lie deeper and are never read.        *)
OpenedBy(menu, level) ==
    /\ level >= 1
    /\ MenuLevels[level - 1] \in 1..Size(Parent(menu))
    /\ Opens(Parent(menu), MenuLevels[level - 1], menu)

StackLeadsBack ==
    PointerToCurrentEventHandler = "menu" /\ CurrentMenuTable # "MainMenu" =>
        /\ OpenedBy(CurrentMenuTable, CurrentMenuLevel)
        /\ Parent(CurrentMenuTable) # "MainMenu" =>
              OpenedBy(Parent(CurrentMenuTable), CurrentMenuLevel - 1)

(* UpdateTemp never writes the temperature over the title of a menu, and    *)
(* always shows it when there is no menu.                                   *)
TempOrMenu ==
    showTemp <=> (isRunning \/ PointerToCurrentEventHandler = "idle")

(* The stack implements the walk in the tree of menus. *)
Shown ==
    IF isRunning THEN <<"run", 0>>
    ELSE IF PointerToCurrentEventHandler = "idle" THEN <<"idle", 0>>
    ELSE <<CurrentMenuTable, CurrentMenuItemIdx>>

Tree == INSTANCE MenuTree WITH shown <- Shown, profile <- currentProfile

ImplementsTree == Tree!TreeSpec

(* "#define MAX_MENU_DEPTH 3" (menu.c:33) is the size of MenuLevels: no     *)
(* more levels than that are ever stored in it.                             *)
MAX_MENU_DEPTH == 3

LevelsFit == CurrentMenuLevel <= MAX_MENU_DEPTH
=============================================================================
