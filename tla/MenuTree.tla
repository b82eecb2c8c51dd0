------------------------------ MODULE MenuTree ------------------------------
(***************************************************************************)
(* What the user sees of the menus: a walk in the tree of MenuTables.      *)
(* MENU leads from a submenu back to the very item that opened it.         *)
(***************************************************************************)
EXTENDS MenuTables

VARIABLES
    shown,       \* <<"idle", 0>>, <<"run", 0>> or <<menu, selected item>>
    profile      \* the profile selected

treeVars == <<shown, profile>>

Idle == <<"idle", 0>>
Run  == <<"run", 0>>

TreeInit == shown = Idle /\ profile = 1

OpenMain == shown = Idle /\ shown' = <<"MainMenu", 1>> /\ UNCHANGED profile

InMenu(menu, idx) == shown = <<menu, idx>> /\ idx \in 1..Size(menu)

Step(menu, idx) ==
    /\ InMenu(menu, idx)
    /\ shown' \in {menu} \X ({idx - 1, idx + 1} \cap 1..Size(menu))
    /\ UNCHANGED profile

Enter(menu, idx) ==
    /\ InMenu(menu, idx)
    /\ \E submenu \in Menus :
          /\ Opens(menu, idx, submenu)
          /\ shown' = <<submenu, IF submenu = "SelectProfileMenu" THEN profile ELSE 1>>
    /\ UNCHANGED profile

Start(menu, idx) ==
    /\ InMenu(menu, idx)
    /\ \E run \in Runs : Items(menu)[idx] = Command(run)
    /\ shown' = Run
    /\ UNCHANGED profile

Select(idx) ==
    /\ InMenu("SelectProfileMenu", idx)
    /\ profile' = idx
    /\ UNCHANGED shown

Back(menu, idx) ==
    /\ InMenu(menu, idx) /\ menu # "MainMenu"
    /\ \E opener \in 1..Size(Parent(menu)) :
          Opens(Parent(menu), opener, menu) /\ shown' = <<Parent(menu), opener>>
    /\ UNCHANGED profile

ToIdle ==
    /\ shown = Run \/ shown \in {"MainMenu"} \X (1..Size("MainMenu"))
    /\ shown' = Idle
    /\ UNCHANGED profile

TreeNext ==
    \/ OpenMain
    \/ ToIdle
    \/ \E menu \in Menus : \E idx \in 1..Size(menu) :
          Step(menu, idx) \/ Enter(menu, idx) \/ Start(menu, idx) \/ Back(menu, idx)
    \/ \E idx \in 1..ProfileCount : Select(idx)

TreeSpec == TreeInit /\ [][TreeNext]_treeVars
=============================================================================
