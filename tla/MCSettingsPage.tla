--------------------------- MODULE MCSettingsPage ---------------------------
(* Constants of SettingsPage for TLC *)
EXTENDS SettingsPage

None == [i \in Inputs |-> 0]

\* Settings against a reset; settings against switching, names and a power loss.
ResetInputs == [None EXCEPT !["roles"] = 1, !["reboots"] = 1, !["reset"] = 1]
PowerInputs == [None EXCEPT !["roles"] = 1, !["reboots"] = 1, !["power"] = 2]
StatusInputs == [None EXCEPT !["roles"] = 1, !["switch"] = 1, !["key"] = 1,
                             !["name"] = 1]
TwoResets == [None EXCEPT !["roles"] = 1, !["reset"] = 2]
PassBudgets == {ResetInputs, TwoResets, PowerInputs, StatusInputs}
OneSwitch == {[None EXCEPT !["switch"] = 1]}
SetAndReset == {[None EXCEPT !["roles"] = 1, !["reset"] = 1]}
SetAndName == {[None EXCEPT !["roles"] = 1, !["name"] = 1, !["power"] = 1]}
=============================================================================
