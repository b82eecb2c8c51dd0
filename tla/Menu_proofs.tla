----------------------------- MODULE Menu_proofs -----------------------------
(***************************************************************************)
(* The stack of the menus is right for every number of profiles and every  *)
(* depth to which levels pile up, and implements the walk in the tree.     *)
(***************************************************************************)
EXTENDS Menu, TLAPS

-----------------------------------------------------------------------------
(* The tables.                                                             *)

(* The number of items of each menu, which all fit a byte. *)
LEMMA Sizes ==
    /\ Size("MainMenu") = 2 /\ Size("ShowReflowMenu") = 3 /\ Size("SettingsMenu") = 5
    /\ Size("SelectProfileMenu") = ProfileCount
<1>1. Size("MainMenu") = 2
  BY DEF Size, Items, MainMenu
<1>2. Size("ShowReflowMenu") = 3
  BY DEF Size, Items, ShowReflowMenu
<1>3. Size("SettingsMenu") = 5
  BY DEF Size, Items, SettingsMenu
<1>4. Size("SelectProfileMenu") = ProfileCount
  <2>1. SelectProfileMenu \in Seq({Command("SelectProfile")})
    BY ProfileCountAssumption DEF SelectProfileMenu
  <2>2. DOMAIN SelectProfileMenu = 1..ProfileCount /\ ProfileCount \in Nat
    BY ProfileCountAssumption DEF SelectProfileMenu
  <2>3. Len(SelectProfileMenu) = ProfileCount
    BY <2>1, <2>2
  <2> QED
    BY <2>3 DEF Size, Items
<1> QED
  BY <1>1, <1>2, <1>3, <1>4

(* A menu has at least one item and at most sixteen. *)
LEMMA SizesSmall ==
    ASSUME NEW menu \in Menus
    PROVE  Size(menu) \in 1..16
BY Sizes, ProfileCountAssumption DEF Menus

(* An item that opens a menu hangs it from the menu the item is in, and    *)
(* that is never the main menu.                                            *)
LEMMA SubMenuItems ==
    ASSUME NEW menu \in Menus, NEW idx \in 1..Size(menu),
           Items(menu)[idx].type = "SUB_MENU"
    PROVE  /\ Items(menu)[idx].target \in Menus \ {"MainMenu"}
           /\ Parent(Items(menu)[idx].target) = menu
           /\ Opens(menu, idx, Items(menu)[idx].target)
<1>1. CASE menu = "MainMenu"
  <2>1. idx \in 1..2
    BY <1>1, Sizes
  <2>2. CASE idx = 1
    BY <1>1, <2>2 DEF Items, MainMenu, SubMenu, Menus, Parent, Opens
  <2>3. CASE idx = 2
    BY <1>1, <2>3 DEF Items, MainMenu, SubMenu, Menus, Parent, Opens
  <2> QED
    BY <2>1, <2>2, <2>3
<1>2. CASE menu = "ShowReflowMenu"
  <2>1. idx \in 1..3
    BY <1>2, Sizes
  <2>2. CASE idx = 2
    BY <1>2, <2>2 DEF Items, ShowReflowMenu, SubMenu, Command, Menus, Parent, Opens
  <2>3. CASE idx # 2
    BY <1>2, <2>1, <2>3 DEF Items, ShowReflowMenu, Command
  <2> QED
    BY <2>2, <2>3
<1>3. CASE menu = "SettingsMenu"
  <2>1. idx \in 1..5
    BY <1>3, Sizes
  <2> QED
    BY <1>3, <2>1 DEF Items, SettingsMenu, Command
<1>4. CASE menu = "SelectProfileMenu"
  <2>1. idx \in 1..ProfileCount
    BY <1>4, Sizes
  <2> QED
    BY <1>4, <2>1 DEF Items, SelectProfileMenu, Command
<1> QED
  BY <1>1, <1>2, <1>3, <1>4 DEF Menus

(* Only the items of the profile list select a profile. *)
LEMMA SelectItems ==
    ASSUME NEW menu \in Menus, NEW idx \in 1..Size(menu),
           Items(menu)[idx] = Command("SelectProfile")
    PROVE  menu = "SelectProfileMenu" /\ idx \in 1..ProfileCount
<1>1. CASE menu = "MainMenu"
  <2>1. idx \in 1..2
    BY <1>1, Sizes
  <2> QED
    BY <1>1, <2>1 DEF Items, MainMenu, SubMenu, Command
<1>2. CASE menu = "ShowReflowMenu"
  <2>1. idx \in 1..3
    BY <1>2, Sizes
  <2> QED
    BY <1>2, <2>1 DEF Items, ShowReflowMenu, SubMenu, Command
<1>3. CASE menu = "SettingsMenu"
  <2>1. idx \in 1..5
    BY <1>3, Sizes
  <2> QED
    BY <1>3, <2>1 DEF Items, SettingsMenu, Command
<1>4. CASE menu = "SelectProfileMenu"
  BY <1>4, Sizes
<1> QED
  BY <1>1, <1>2, <1>3, <1>4 DEF Menus

(* A menu hangs from the main menu, or from one that does. *)
LEMMA Parents ==
    ASSUME NEW menu \in Menus
    PROVE  /\ Parent(menu) \in {"MainMenu", "ShowReflowMenu"}
           /\ Parent(Parent(menu)) = "MainMenu"
BY DEF Menus, Parent

-----------------------------------------------------------------------------
(* The invariant: what the run checks, and that a menu is displayed once   *)
(* its handler is set, which the null pointer of the start is not.         *)

Displayed == PointerToCurrentEventHandler = "menu" => CurrentMenuTable \in Menus

Inv == TypeOK /\ Displayed /\ ItemExists /\ StackLeadsBack /\ TempOrMenu

USE LevelCapAssumption, ProfileCountAssumption

(* The invariant holds when no menu has been opened yet. *)
LEMMA InitInv == Init => Inv
<1> SUFFICES ASSUME Init PROVE Inv
  OBVIOUS
<1>1. TypeOK
  <2>1. MenuLevels \in [0..(LevelCap - 1) -> 0..255]
    BY DEF Init
  <2>2. showTemp \in BOOLEAN /\ isRunning \in BOOLEAN
    BY Zenon DEF Init
  <2> QED
    BY <2>1, <2>2 DEF Init, TypeOK
<1>2. Displayed /\ ItemExists /\ StackLeadsBack
  BY DEF Init, Displayed, ItemExists, StackLeadsBack
<1>3. TempOrMenu
  BY Zenon DEF Init, TempOrMenu
<1> QED
  BY <1>1, <1>2, <1>3 DEF Inv

(* Opening the main menu starts an empty stack. *)
LEMMA OpenMainMenuInv ==
    ASSUME Inv, OpenMainMenu PROVE Inv'
<1>1. /\ PointerToCurrentEventHandler' = "menu" /\ CurrentMenuTable' = "MainMenu"
      /\ CurrentMenuItemIdx' = 1
  BY DEF OpenMainMenu, MenuDisplay
<1>2. TypeOK'
  <2>1. showTemp' \in BOOLEAN /\ isRunning' \in BOOLEAN
    BY Zenon DEF OpenMainMenu, Inv, TypeOK
  <2> QED
    BY <1>1, <2>1 DEF Inv, TypeOK, OpenMainMenu, stackVars, Menus
<1>3. Displayed' /\ ItemExists' /\ StackLeadsBack'
  BY <1>1, Sizes DEF Displayed, ItemExists, StackLeadsBack, Menus
<1>4. TempOrMenu'
  <2>1. PointerToCurrentEventHandler' # "idle"
    BY <1>1
  <2> QED
    BY <2>1, Zenon DEF OpenMainMenu, TempOrMenu
<1> QED
  BY <1>2, <1>3, <1>4 DEF Inv

(* Up and down stay in the menu. *)
LEMMA Selection ==
    ASSUME Inv, InMenus
    PROVE  /\ CurrentMenuTable \in Menus
           /\ CurrentMenuItemIdx \in 1..Size(CurrentMenuTable)
           /\ Size(CurrentMenuTable) \in 1..16
BY SizesSmall DEF Inv, InMenus, Displayed, ItemExists

(* Up and down select another item of the same menu. *)
LEMMA UpDownStep ==
    ASSUME Inv, UpDown
    PROVE  /\ CurrentMenuItemIdx' \in 1..Size(CurrentMenuTable)
           /\ CurrentMenuItemIdx' \in {CurrentMenuItemIdx - 1, CurrentMenuItemIdx,
                                      CurrentMenuItemIdx + 1}
<1>1. /\ CurrentMenuItemIdx \in 1..Size(CurrentMenuTable)
      /\ Size(CurrentMenuTable) \in 1..16
  BY Selection DEF UpDown
<1>2. PICK idx \in {(CurrentMenuItemIdx + 255) % 256, (CurrentMenuItemIdx + 1) % 256} :
          CurrentMenuItemIdx' = IF idx \in 1..Size(CurrentMenuTable) THEN idx ELSE CurrentMenuItemIdx
  BY Zenon DEF UpDown, MenuChangeSelection
<1>3. idx \in {CurrentMenuItemIdx - 1, CurrentMenuItemIdx + 1}
  BY <1>1
<1> QED
  BY <1>1, <1>2, <1>3

(* They leave the stack alone. *)
LEMMA UpDownInv ==
    ASSUME Inv, UpDown PROVE Inv'
<1>1. CurrentMenuItemIdx' \in 1..Size(CurrentMenuTable) /\ Size(CurrentMenuTable) \in 1..16
  BY UpDownStep, Selection DEF UpDown
<1>2. TypeOK'
  BY <1>1 DEF Inv, TypeOK, UpDown, stackVars
<1>3. Displayed' /\ ItemExists'
  BY <1>1 DEF Inv, Displayed, ItemExists, UpDown
<1>4. StackLeadsBack'
  BY DEF Inv, StackLeadsBack, OpenedBy, UpDown, stackVars
<1>5. TempOrMenu'
  BY Zenon DEF Inv, TempOrMenu, UpDown
<1> QED
  BY <1>2, <1>3, <1>4, <1>5 DEF Inv

(* Entering a submenu pushes the present place and shows the first item. *)
LEMMA EnterSubMenuStep ==
    ASSUME Inv, EnterSubMenu
    PROVE  /\ CurrentItem.target \in Menus \ {"MainMenu"}
           /\ Parent(CurrentItem.target) = CurrentMenuTable
           /\ Opens(CurrentMenuTable, CurrentMenuItemIdx, CurrentItem.target)
           /\ PointerToCurrentEventHandler' = "menu"
           /\ CurrentMenuTable' = CurrentItem.target
           /\ CurrentMenuItemIdx' = IF CurrentItem.target = "SelectProfileMenu"
                                    THEN currentProfile ELSE 1
<1>1. InMenus /\ CurrentItem.type = "SUB_MENU"
  BY DEF EnterSubMenu
<1>2. CurrentMenuTable \in Menus /\ CurrentMenuItemIdx \in 1..Size(CurrentMenuTable)
  BY <1>1, Selection
<1> QED
  BY <1>1, <1>2, SubMenuItems DEF EnterSubMenu, MenuDisplay, CurrentItem

(* The level pushed is the one that MENU has to take back. *)
LEMMA EnterSubMenuInv ==
    ASSUME Inv, EnterSubMenu PROVE Inv'
<1> DEFINE target == CurrentItem.target
<1>1. /\ target \in Menus \ {"MainMenu"} /\ Parent(target) = CurrentMenuTable
      /\ Opens(CurrentMenuTable, CurrentMenuItemIdx, target)
      /\ PointerToCurrentEventHandler' = "menu" /\ CurrentMenuTable' = target
      /\ CurrentMenuItemIdx' = IF target = "SelectProfileMenu" THEN currentProfile ELSE 1
  BY EnterSubMenuStep
<1>2. /\ CurrentMenuTable \in Menus /\ CurrentMenuItemIdx \in 1..Size(CurrentMenuTable)
      /\ Size(CurrentMenuTable) \in 1..16
  BY Selection DEF EnterSubMenu
<1>3. /\ MenuLevels' = [MenuLevels EXCEPT ![CurrentMenuLevel] = CurrentMenuItemIdx]
      /\ CurrentMenuLevel' = CurrentMenuLevel + 1
      /\ CurrentMenuLevel \in 0..(LevelCap - 1)
      /\ MenuLevels \in [0..(LevelCap - 1) -> 0..255]
  BY DEF EnterSubMenu, Inv, TypeOK
<1> HIDE DEF target
<1>4. CurrentMenuItemIdx' \in 1..Size(target) /\ Size(target) \in 1..16
  <2>1. currentProfile \in 1..ProfileCount
    BY DEF Inv, TypeOK
  <2> QED
    BY <1>1, <2>1, Sizes, SizesSmall
<1>5. TypeOK'
  <2>1. CurrentMenuItemIdx \in 0..255
    BY DEF Inv, TypeOK
  <2>2. MenuLevels' \in [0..(LevelCap - 1) -> 0..255]
    BY <1>3, <2>1
  <2>3. CurrentMenuLevel' \in 0..LevelCap
    BY <1>3
  <2> QED
    BY <1>1, <1>4, <2>2, <2>3 DEF Inv, TypeOK, EnterSubMenu
<1>6. Displayed' /\ ItemExists'
  BY <1>1, <1>4 DEF Displayed, ItemExists
<1>7. StackLeadsBack'
  <2>1. /\ CurrentMenuLevel' >= 1 /\ CurrentMenuLevel' - 1 = CurrentMenuLevel
        /\ MenuLevels'[CurrentMenuLevel] = CurrentMenuItemIdx
        /\ \A level \in 0..(LevelCap - 1) :
              level # CurrentMenuLevel => MenuLevels'[level] = MenuLevels[level]
    BY <1>3
  <2>2. OpenedBy(CurrentMenuTable, CurrentMenuLevel)'
    BY <1>1, <1>2, <2>1 DEF OpenedBy
  <2>3. Parent(CurrentMenuTable') = CurrentMenuTable
    BY <1>1
  <2>4. ASSUME CurrentMenuTable # "MainMenu"
        PROVE  /\ CurrentMenuLevel' - 1 >= 1
               /\ MenuLevels'[CurrentMenuLevel' - 1 - 1] \in 1..Size(Parent(CurrentMenuTable))
               /\ Opens(Parent(CurrentMenuTable), MenuLevels'[CurrentMenuLevel' - 1 - 1],
                        CurrentMenuTable)
    <3>1. OpenedBy(CurrentMenuTable, CurrentMenuLevel)
      BY <2>4 DEF Inv, StackLeadsBack, EnterSubMenu, InMenus
    <3>2. MenuLevels'[CurrentMenuLevel - 1] = MenuLevels[CurrentMenuLevel - 1]
      BY <1>3, <2>1, <3>1 DEF OpenedBy
    <3> QED
      BY <2>1, <3>1, <3>2 DEF OpenedBy
  <2> QED
    BY <2>2, <2>3, <2>4 DEF StackLeadsBack, OpenedBy
<1>8. TempOrMenu'
  <2>1. PointerToCurrentEventHandler' # "idle"
    BY <1>1
  <2> QED
    BY <2>1, Zenon DEF EnterSubMenu, InMenus, TempOrMenu, Inv
<1> QED
  BY <1>5, <1>6, <1>7, <1>8 DEF Inv

(* Starting a run hides the menu and leaves its levels on the stack. *)
LEMMA EnterRunInv ==
    ASSUME Inv, EnterRun PROVE Inv'
<1>1. isRunning' = TRUE /\ showTemp' = TRUE
  BY Zenon DEF EnterRun
<1>2. UNCHANGED <<placeVars, stackVars, currentProfile>>
  BY Zenon DEF EnterRun
<1>3. TypeOK'
  <2>1. showTemp' \in BOOLEAN /\ isRunning' \in BOOLEAN
    BY <1>1, Zenon
  <2> QED
    BY <1>2, <2>1 DEF Inv, TypeOK, placeVars, stackVars
<1>4. Displayed' /\ ItemExists' /\ StackLeadsBack'
  BY <1>2 DEF Inv, Displayed, ItemExists, StackLeadsBack, OpenedBy, placeVars, stackVars
<1>5. TempOrMenu'
  BY <1>1, Zenon DEF TempOrMenu
<1> QED
  BY <1>3, <1>4, <1>5 DEF Inv

(* Selecting a profile changes nothing but the profile. *)
LEMMA SelectProfileStep ==
    ASSUME Inv, SelectProfileCommand
    PROVE  /\ CurrentMenuTable = "SelectProfileMenu"
           /\ currentProfile' = CurrentMenuItemIdx
           /\ currentProfile' \in 1..ProfileCount
<1>1. CurrentMenuTable \in Menus /\ CurrentMenuItemIdx \in 1..Size(CurrentMenuTable)
  BY Selection DEF SelectProfileCommand
<1> QED
  BY <1>1, SelectItems DEF SelectProfileCommand, CurrentItem

(* It keeps the types: the item selected is a profile. *)
LEMMA SelectProfileInv ==
    ASSUME Inv, SelectProfileCommand PROVE Inv'
<1>1. currentProfile' \in 1..ProfileCount
  BY SelectProfileStep
<1>2. UNCHANGED <<placeVars, stackVars, showTemp, isRunning>>
  BY Zenon DEF SelectProfileCommand
<1>3. TypeOK'
  BY <1>1, <1>2 DEF Inv, TypeOK, placeVars, stackVars
<1>4. Displayed' /\ ItemExists' /\ StackLeadsBack'
  BY <1>2 DEF Inv, Displayed, ItemExists, StackLeadsBack, OpenedBy, placeVars, stackVars
<1>5. TempOrMenu'
  BY <1>2, Zenon DEF Inv, TempOrMenu, placeVars
<1> QED
  BY <1>3, <1>4, <1>5 DEF Inv

(* Both ways into idle: the main menu is left, or a run ends. *)
LEMMA ToIdleInv ==
    ASSUME Inv, LeaveMainMenu \/ EndRun PROVE Inv'
<1>1. /\ showTemp' = TRUE /\ PointerToCurrentEventHandler' = "idle"
      /\ UNCHANGED <<CurrentMenuTable, CurrentMenuItemIdx, stackVars, currentProfile>>
  BY Zenon DEF LeaveMainMenu, EndRun, SetIdleMode
<1>2. isRunning' = FALSE \/ isRunning' = isRunning
  BY Zenon DEF LeaveMainMenu, EndRun
<1>3. TypeOK'
  <2>1. showTemp' \in BOOLEAN /\ isRunning' \in BOOLEAN
    BY <1>1, <1>2, Zenon DEF Inv, TypeOK
  <2> QED
    BY <1>1, <2>1 DEF Inv, TypeOK, stackVars
<1>4. Displayed' /\ ItemExists' /\ StackLeadsBack'
  BY <1>1 DEF Displayed, ItemExists, StackLeadsBack
<1>5. TempOrMenu'
  BY <1>1, Zenon DEF TempOrMenu
<1> QED
  BY <1>3, <1>4, <1>5 DEF Inv

(* MENU in a submenu pops the place where the submenu was entered. *)
LEMMA LeaveSubMenuStep ==
    ASSUME Inv, LeaveSubMenu
    PROVE  /\ CurrentMenuTable \in Menus
           /\ CurrentMenuLevel' = CurrentMenuLevel - 1
           /\ CurrentMenuLevel' \in 0..LevelCap
           /\ PointerToCurrentEventHandler' = "menu"
           /\ CurrentMenuTable' = Parent(CurrentMenuTable)
           /\ CurrentMenuItemIdx' = MenuLevels[CurrentMenuLevel - 1]
           /\ CurrentMenuItemIdx' \in 1..Size(Parent(CurrentMenuTable))
           /\ Opens(Parent(CurrentMenuTable), CurrentMenuItemIdx', CurrentMenuTable)
<1>1. CurrentMenuTable \in Menus
  BY Selection DEF LeaveSubMenu
<1>2. OpenedBy(CurrentMenuTable, CurrentMenuLevel)
  BY DEF Inv, StackLeadsBack, LeaveSubMenu, InMenus
<1>3. CurrentMenuLevel \in 1..LevelCap
  BY <1>2 DEF OpenedBy, Inv, TypeOK
<1>4. CurrentMenuLevel' = CurrentMenuLevel - 1
  <2>1. CurrentMenuLevel' = (CurrentMenuLevel + 255) % 256
    BY DEF LeaveSubMenu
  <2> QED
    BY <1>3, <2>1
<1>5. Parent(CurrentMenuTable) # "SelectProfileMenu"
  BY <1>1, Parents
<1>6. /\ PointerToCurrentEventHandler' = "menu"
      /\ CurrentMenuTable' = Parent(CurrentMenuTable)
      /\ CurrentMenuItemIdx' = MenuLevels[CurrentMenuLevel']
  BY <1>5 DEF LeaveSubMenu, MenuDisplay
<1> QED
  BY <1>1, <1>2, <1>3, <1>4, <1>6 DEF OpenedBy

(* What is below the level popped leads back from the menu it names. *)
LEMMA LeaveSubMenuInv ==
    ASSUME Inv, LeaveSubMenu PROVE Inv'
<1>1. /\ CurrentMenuTable \in Menus
      /\ CurrentMenuLevel' = CurrentMenuLevel - 1
      /\ CurrentMenuLevel' \in 0..LevelCap
      /\ PointerToCurrentEventHandler' = "menu"
      /\ CurrentMenuTable' = Parent(CurrentMenuTable)
      /\ CurrentMenuItemIdx' \in 1..Size(CurrentMenuTable')
  BY LeaveSubMenuStep
<1>2. UNCHANGED <<MenuLevels, currentProfile, showTemp, isRunning>>
  BY Zenon DEF LeaveSubMenu
<1>3. CurrentMenuTable' \in Menus /\ Parent(CurrentMenuTable') = "MainMenu"
  BY <1>1, Parents DEF Menus
<1>4. TypeOK'
  <2>1. Size(CurrentMenuTable') \in 1..16
    BY <1>3, SizesSmall
  <2> QED
    BY <1>1, <1>2, <1>3, <2>1 DEF Inv, TypeOK
<1>5. Displayed' /\ ItemExists'
  BY <1>1, <1>3 DEF Displayed, ItemExists
<1>6. StackLeadsBack'
  <2>1. ASSUME Parent(CurrentMenuTable) # "MainMenu"
        PROVE  OpenedBy(Parent(CurrentMenuTable), CurrentMenuLevel - 1)
    <3>1. CurrentMenuTable # "MainMenu" /\ PointerToCurrentEventHandler = "menu"
      BY DEF LeaveSubMenu, InMenus
    <3> QED
      BY <2>1, <3>1 DEF Inv, StackLeadsBack
  <2> QED
    BY <1>1, <1>2, <1>3, <2>1 DEF StackLeadsBack, OpenedBy
<1>7. TempOrMenu'
  <2>1. PointerToCurrentEventHandler' # "idle" /\ PointerToCurrentEventHandler # "idle"
    BY <1>1 DEF LeaveSubMenu, InMenus
  <2> QED
    BY <1>2, <2>1, Zenon DEF Inv, TempOrMenu
<1> QED
  BY <1>4, <1>5, <1>6, <1>7 DEF Inv

-----------------------------------------------------------------------------
(* Every step of the menu keeps the invariant. *)
LEMMA NextInv == Inv /\ [Next]_vars => Inv'
<1> SUFFICES ASSUME Inv, [Next]_vars PROVE Inv'
  OBVIOUS
<1>1. CASE OpenMainMenu
  BY <1>1, OpenMainMenuInv
<1>2. CASE UpDown
  BY <1>2, UpDownInv
<1>3. CASE EnterSubMenu
  BY <1>3, EnterSubMenuInv
<1>4. CASE EnterRun
  BY <1>4, EnterRunInv
<1>5. CASE SelectProfileCommand
  BY <1>5, SelectProfileInv
<1>6. CASE LeaveMainMenu \/ EndRun
  BY <1>6, ToIdleInv
<1>7. CASE LeaveSubMenu
  BY <1>7, LeaveSubMenuInv
<1>8. CASE UNCHANGED vars
  BY <1>8 DEF vars, placeVars, stackVars, Inv, TypeOK, Displayed, ItemExists,
              StackLeadsBack, OpenedBy, TempOrMenu
<1> QED
  BY <1>1, <1>2, <1>3, <1>4, <1>5, <1>6, <1>7, <1>8 DEF Next

(* The invariant holds at every time, for every number of profiles and levels. *)
THEOREM Invariance == Spec => []Inv
<1>1. Init => Inv
  BY InitInv
<1>2. Inv /\ [Next]_vars => Inv'
  BY NextInv
<1> QED
  BY <1>1, <1>2, PTL DEF Spec

(* The types of the menu's variables, for every number of profiles. *)
THEOREM TypeCorrect == Spec => []TypeOK
<1>1. Inv => TypeOK
  BY DEF Inv
<1> QED
  BY <1>1, Invariance, PTL

(* The item that is selected is an item of the menu that is displayed. *)
THEOREM SelectedItemExists == Spec => []ItemExists
<1>1. Inv => ItemExists
  BY DEF Inv
<1> QED
  BY <1>1, Invariance, PTL

(* The levels that MENU will take from the stack are the right ones, *)
(* whatever runs have left behind below them.                        *)
THEOREM StackIsRight == Spec => []StackLeadsBack
<1>1. Inv => StackLeadsBack
  BY DEF Inv
<1> QED
  BY <1>1, Invariance, PTL

(* The temperature and the menus never share the display. *)
THEOREM DisplayIsShared == Spec => []TempOrMenu
<1>1. Inv => TempOrMenu
  BY DEF Inv
<1> QED
  BY <1>1, Invariance, PTL

-----------------------------------------------------------------------------
(* The walk in the tree.                                                   *)

(* The tree is built on the same tables. *)
LEMMA SameTables ==
    /\ Tree!Menus = Menus /\ Tree!Runs = Runs
    /\ \A menu : Tree!Items(menu) = Items(menu)
    /\ \A menu : Tree!Size(menu) = Size(menu)
    /\ \A menu : Tree!Parent(menu) = Parent(menu)
    /\ \A menu, idx, submenu : Tree!Opens(menu, idx, submenu) <=> Opens(menu, idx, submenu)
    /\ \A name : Tree!Command(name) = Command(name)
<1>1. Tree!Menus = Menus /\ Tree!Runs = Runs
  BY Zenon DEF Tree!Menus, Menus, Tree!Runs, Runs
<1>2. \A menu : Tree!Items(menu) = Items(menu)
  BY Zenon DEF Tree!Items, Items, Tree!MainMenu, MainMenu, Tree!ShowReflowMenu, ShowReflowMenu,
         Tree!SettingsMenu, SettingsMenu, Tree!SelectProfileMenu, SelectProfileMenu,
         Tree!SubMenu, SubMenu, Tree!Command, Command
<1>3. \A menu : Tree!Size(menu) = Size(menu)
  BY <1>2, Zenon DEF Tree!Size, Size
<1>4. \A menu : Tree!Parent(menu) = Parent(menu)
  BY Zenon DEF Tree!Parent, Parent
<1>5. \A menu, idx, submenu : Tree!Opens(menu, idx, submenu) <=> Opens(menu, idx, submenu)
  BY <1>2, Zenon DEF Tree!Opens, Opens, Tree!SubMenu, SubMenu
<1>6. \A name : Tree!Command(name) = Command(name)
  BY Zenon DEF Tree!Command, Command
<1> QED
  BY <1>1, <1>2, <1>3, <1>4, <1>5, <1>6

(* In the menus the abstract place is the menu and the item displayed. *)
LEMMA ShownInMenus ==
    ASSUME InMenus PROVE Shown = <<CurrentMenuTable, CurrentMenuItemIdx>>
BY DEF InMenus, Shown

(* So it is after a step. *)
LEMMA ShownNext ==
    ASSUME Inv, InMenus, isRunning' = isRunning, PointerToCurrentEventHandler' = "menu"
    PROVE  Shown' = <<CurrentMenuTable', CurrentMenuItemIdx'>>
<1>1. ~isRunning'
  BY Zenon DEF InMenus
<1> QED
  BY <1>1 DEF Shown

(* The present place is one of the tree. *)
LEMMA InTree ==
    ASSUME Inv, InMenus
    PROVE  /\ CurrentMenuTable \in Menus
           /\ CurrentMenuItemIdx \in 1..Size(CurrentMenuTable)
           /\ Tree!InMenu(CurrentMenuTable, CurrentMenuItemIdx)
<1>1. CurrentMenuTable \in Menus /\ CurrentMenuItemIdx \in 1..Size(CurrentMenuTable)
  BY Selection
<1> QED
  BY <1>1, ShownInMenus, SameTables DEF Tree!InMenu

(* Opening the main menu enters the tree at its first item. *)
LEMMA OpenMainMenuWalks ==
    ASSUME Inv, OpenMainMenu PROVE Tree!TreeNext
<1>1. ~isRunning /\ isRunning' = isRunning /\ currentProfile' = currentProfile
  BY Zenon DEF OpenMainMenu
<1>2. Shown = <<"idle", 0>>
  BY <1>1 DEF OpenMainMenu, Shown
<1>3. PointerToCurrentEventHandler' = "menu" /\ CurrentMenuTable' = "MainMenu" /\ CurrentMenuItemIdx' = 1
  BY DEF OpenMainMenu, MenuDisplay
<1>4. ~isRunning'
  BY <1>1, Zenon
<1>5. Shown' = <<"MainMenu", 1>>
  BY <1>3, <1>4 DEF Shown
<1> QED
  BY <1>1, <1>2, <1>5 DEF Tree!TreeNext, Tree!OpenMain, Tree!Idle

(* Up and down walk to the neighbours of the item. *)
LEMMA UpDownWalks ==
    ASSUME Inv, UpDown PROVE Tree!TreeNext \/ UNCHANGED Tree!treeVars
<1> DEFINE menu == CurrentMenuTable
           idx == CurrentMenuItemIdx
<1>1. InMenus
  BY Zenon DEF UpDown
<1>2. UNCHANGED <<PointerToCurrentEventHandler, CurrentMenuTable, currentProfile, isRunning>>
  BY Zenon DEF UpDown
<1>3. Shown = <<menu, idx>> /\ Tree!InMenu(menu, idx) /\ menu \in Menus /\ idx \in 1..Size(menu)
  BY <1>1, ShownInMenus, InTree
<1>4. Shown' = <<menu, CurrentMenuItemIdx'>>
  BY <1>1, <1>2, ShownNext DEF InMenus
<1>5. /\ CurrentMenuItemIdx' \in 1..Size(menu)
      /\ CurrentMenuItemIdx' \in {idx - 1, idx, idx + 1}
  BY UpDownStep
<1>6. CASE CurrentMenuItemIdx' = idx
  BY <1>2, <1>3, <1>4, <1>6 DEF Tree!treeVars
<1>7. CASE CurrentMenuItemIdx' # idx
  <2>1. CurrentMenuItemIdx' \in {idx - 1, idx + 1} \cap 1..Size(menu)
    BY <1>5, <1>7
  <2>2. Tree!Step(menu, idx)
    BY <1>2, <1>3, <1>4, <2>1, SameTables DEF Tree!Step
  <2> QED
    BY <1>3, <2>2, SameTables DEF Tree!TreeNext
<1> QED
  BY <1>6, <1>7

(* Entering a submenu is a step down in the tree. *)
LEMMA EnterSubMenuWalks ==
    ASSUME Inv, EnterSubMenu PROVE Tree!TreeNext
<1> DEFINE menu == CurrentMenuTable
           idx == CurrentMenuItemIdx
<1>1. InMenus /\ isRunning' = isRunning /\ currentProfile' = currentProfile
  BY Zenon DEF EnterSubMenu
<1>2. Tree!InMenu(menu, idx) /\ menu \in Menus /\ idx \in 1..Size(menu)
  BY <1>1, InTree
<1>3. PICK submenu \in Menus :
         /\ Opens(menu, idx, submenu)
         /\ PointerToCurrentEventHandler' = "menu" /\ CurrentMenuTable' = submenu
         /\ CurrentMenuItemIdx' = IF submenu = "SelectProfileMenu" THEN currentProfile ELSE 1
  BY EnterSubMenuStep
<1>4. Shown' = <<submenu, IF submenu = "SelectProfileMenu" THEN currentProfile ELSE 1>>
  BY <1>1, <1>3, ShownNext
<1>5. Tree!Enter(menu, idx)
  BY <1>1, <1>2, <1>3, <1>4, SameTables DEF Tree!Enter
<1> QED
  BY <1>2, <1>5, SameTables DEF Tree!TreeNext

(* Starting a run leaves the tree for the run. *)
LEMMA EnterRunWalks ==
    ASSUME Inv, EnterRun PROVE Tree!TreeNext
<1> DEFINE menu == CurrentMenuTable
           idx == CurrentMenuItemIdx
<1>1. InMenus /\ isRunning' = TRUE /\ currentProfile' = currentProfile
  BY Zenon DEF EnterRun
<1>2. Tree!InMenu(menu, idx) /\ menu \in Menus /\ idx \in 1..Size(menu)
  BY <1>1, InTree
<1>3. \E run \in Runs : Items(menu)[idx] = Command(run)
  BY DEF EnterRun, CurrentItem
<1>4. Shown' = <<"run", 0>>
  BY <1>1 DEF Shown
<1>5. Tree!Start(menu, idx)
  BY <1>1, <1>2, <1>3, <1>4, SameTables DEF Tree!Start, Tree!Run
<1> QED
  BY <1>2, <1>5, SameTables DEF Tree!TreeNext

(* Selecting a profile selects it in the tree. *)
LEMMA SelectProfileWalks ==
    ASSUME Inv, SelectProfileCommand PROVE Tree!TreeNext
<1>1. InMenus /\ UNCHANGED <<placeVars, isRunning>>
  BY Zenon DEF SelectProfileCommand
<1>2. Tree!InMenu("SelectProfileMenu", CurrentMenuItemIdx)
  BY <1>1, InTree, SelectProfileStep
<1>3. currentProfile' = CurrentMenuItemIdx /\ currentProfile' \in 1..ProfileCount
  BY SelectProfileStep
<1>4. Shown' = Shown
  BY <1>1 DEF Shown, placeVars
<1>5. Tree!Select(CurrentMenuItemIdx)
  BY <1>2, <1>3, <1>4 DEF Tree!Select
<1> QED
  BY <1>3, <1>5 DEF Tree!TreeNext

(* MENU in the main menu leaves the tree. *)
LEMMA LeaveMainMenuWalks ==
    ASSUME Inv, LeaveMainMenu PROVE Tree!TreeNext
<1>1. InMenus /\ isRunning' = isRunning /\ currentProfile' = currentProfile
  BY Zenon DEF LeaveMainMenu
<1>2. Shown = <<"MainMenu", CurrentMenuItemIdx>> /\ CurrentMenuItemIdx \in 1..Size("MainMenu")
  BY <1>1, ShownInMenus, InTree DEF LeaveMainMenu
<1>3. ~isRunning'
  BY <1>1, Zenon DEF InMenus
<1>4. Shown' = <<"idle", 0>>
  BY <1>3 DEF Shown, LeaveMainMenu, SetIdleMode
<1> QED
  BY <1>1, <1>2, <1>4, SameTables DEF Tree!TreeNext, Tree!ToIdle, Tree!Idle

(* A run that ends leads to idle. *)
LEMMA EndRunWalks ==
    ASSUME Inv, EndRun PROVE Tree!TreeNext
<1>1. isRunning /\ ~isRunning' /\ currentProfile' = currentProfile
  BY Zenon DEF EndRun
<1>2. Shown = <<"run", 0>>
  BY <1>1 DEF Shown
<1>3. Shown' = <<"idle", 0>>
  BY <1>1 DEF Shown, EndRun, SetIdleMode
<1> QED
  BY <1>1, <1>2, <1>3 DEF Tree!TreeNext, Tree!ToIdle, Tree!Idle, Tree!Run

(* MENU takes the item from the stack; the tree says which it must be. *)
LEMMA LeaveSubMenuWalks ==
    ASSUME Inv, LeaveSubMenu PROVE Tree!TreeNext
<1> DEFINE menu == CurrentMenuTable
           idx == CurrentMenuItemIdx
           opener == CurrentMenuItemIdx'
<1>1. InMenus /\ menu # "MainMenu" /\ isRunning' = isRunning /\ currentProfile' = currentProfile
  BY Zenon DEF LeaveSubMenu
<1>2. Tree!InMenu(menu, idx) /\ menu \in Menus /\ idx \in 1..Size(menu)
  BY <1>1, InTree
<1>3. /\ PointerToCurrentEventHandler' = "menu" /\ CurrentMenuTable' = Parent(menu)
      /\ opener \in 1..Size(Parent(menu)) /\ Opens(Parent(menu), opener, menu)
  BY LeaveSubMenuStep
<1>4. Shown' = <<Parent(menu), opener>>
  BY <1>1, <1>3, ShownNext
<1>5. Tree!Back(menu, idx)
  BY <1>1, <1>2, <1>3, <1>4, SameTables DEF Tree!Back
<1> QED
  BY <1>2, <1>5, SameTables DEF Tree!TreeNext

(* Whatever the user does, the stack shows what a walk in the tree shows. *)
THEOREM ImplementsMenuTree == Spec => ImplementsTree
<1>1. Init => Tree!TreeInit
  BY DEF Init, Tree!TreeInit, Tree!Idle, Shown
<1>2. Inv /\ [Next]_vars => [Tree!TreeNext]_Tree!treeVars
  <2> SUFFICES ASSUME Inv, [Next]_vars
               PROVE  Tree!TreeNext \/ UNCHANGED Tree!treeVars
    OBVIOUS
  <2>1. CASE OpenMainMenu
    BY <2>1, OpenMainMenuWalks
  <2>2. CASE UpDown
    BY <2>2, UpDownWalks
  <2>3. CASE EnterSubMenu
    BY <2>3, EnterSubMenuWalks
  <2>4. CASE EnterRun
    BY <2>4, EnterRunWalks
  <2>5. CASE SelectProfileCommand
    BY <2>5, SelectProfileWalks
  <2>6. CASE LeaveMainMenu
    BY <2>6, LeaveMainMenuWalks
  <2>7. CASE EndRun
    BY <2>7, EndRunWalks
  <2>8. CASE LeaveSubMenu
    BY <2>8, LeaveSubMenuWalks
  <2>9. CASE UNCHANGED vars
    BY <2>9 DEF vars, placeVars, Shown, Tree!treeVars
  <2> QED
    BY <2>1, <2>2, <2>3, <2>4, <2>5, <2>6, <2>7, <2>8, <2>9 DEF Next
<1> QED
  BY <1>1, <1>2, Invariance, PTL DEF Spec, ImplementsTree, Tree!TreeSpec
=============================================================================
