----------------------------- MODULE MenuTables -----------------------------
(***************************************************************************)
(* The menus of the front panel, as ReflowOven.c puts them in flash: four  *)
(* tables of items, the profile list being filled from the EEPROM.         *)
(***************************************************************************)
EXTENDS Naturals, Sequences

CONSTANT ProfileCount     \* profiles in the EEPROM

ASSUME ProfileCountAssumption == ProfileCount \in 1..16     \* MAX_PROFILES

Menus == {"MainMenu", "ShowReflowMenu", "SelectProfileMenu", "SettingsMenu"}

Runs == {"RunProfile", "CalibrateOven", "PIDTest", "Calibrate60c", "Calibrate120c"}

SubMenu(menu) == [type |-> "SUB_MENU", target |-> menu]
Command(name) == [type |-> "COMMAND", target |-> name]

MainMenu == <<SubMenu("ShowReflowMenu"), SubMenu("SettingsMenu")>>

ShowReflowMenu ==
    <<Command("RunProfile"), SubMenu("SelectProfileMenu"), Command("EditProfile")>>

SettingsMenu ==
    <<Command("CalibrateOven"), Command("PIDTest"), Command("CalibrateProfile"),
      Command("Calibrate60c"), Command("Calibrate120c")>>

SelectProfileMenu == [i \in 1..ProfileCount |-> Command("SelectProfile")]

Items(menu) ==
    CASE menu = "MainMenu"          -> MainMenu
      [] menu = "ShowReflowMenu"    -> ShowReflowMenu
      [] menu = "SettingsMenu"      -> SettingsMenu
      [] menu = "SelectProfileMenu" -> SelectProfileMenu

Size(menu) == Len(Items(menu))

(* The menu named in the header of a submenu. *)
Parent(menu) ==
    IF menu = "SelectProfileMenu" THEN "ShowReflowMenu" ELSE "MainMenu"

Opens(menu, idx, submenu) == Items(menu)[idx] = SubMenu(submenu)
=============================================================================
