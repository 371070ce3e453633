---------------------------- MODULE DeviceSettings ----------------------------
(***************************************************************************)
(* The settings in NVS (storage.cpp) and everything that edits them: the   *)
(* menus and the Wi-Fi picker of the device, the settings page of the web  *)
(* console and the Local setup portal (provisioning.cpp).                  *)
(*                                                                         *)
(* Every editor works on a copy and writes all entries, one put each, in a *)
(* fixed order; API key and URL belong to the provider profiles, whose     *)
(* update is atomic (ProviderProfiles).  A candidate that does not pass    *)
(* the checks, and a Wi-Fi that cannot be joined, change nothing.          *)
(***************************************************************************)
EXTENDS Naturals, Sequences

CONSTANTS MaxSaves, MaxFaults, MaxResets

VARIABLES
  nvs,       \* the stored value of each field; 0: none
  ram,       \* `settings`, those of the device
  copy,      \* consoleSettings, or those of the portal
  form,      \* the candidate that is being saved
  edited,    \* history: the fields in which it differs from what it is made of
  pc,        \* where the program is
  editor,    \* whose save it is: device, web or portal
  put,       \* how many entries it has written
  exit,      \* the portal may be left, must not, or is about to restart
  applied,   \* the look that display and CPU have
  told,      \* history: what each field was last reported to be
  asked,     \* history: what saves that did not report success asked for since
  unapplied, \* history: the hardware refused the look
  stale,     \* history: the settings were not read again after the console
  left

vars == <<nvs, ram, copy, form, edited, pc, editor, put, exit, applied, told, asked,
          unapplied, stale, left>>
saving == <<form, edited, editor, put>>
history == <<told, asked, unapplied, stale>>

\* "text" stands for the instructions, the voice, the search and the session
\* lifetime, which the device need not apply; "look" for display and power.
Order == <<"ssid", "password", "model", "text", "look", "policy">>
Field == {Order[i] : i \in 1..Len(Order)} \cup {"api"}
Value == 0..MaxSaves + 1
Groups == {{"ssid", "password"}, {"text"}, {"look"}, {"policy"}}

TypeOK ==
  /\ {nvs, ram, copy, form, told} \subseteq [Field -> Value]
  /\ asked \in [Field -> SUBSET Value] /\ edited \subseteq Field
  /\ pc \in {"boot", "start", "dead", "device", "web", "portal", "provider", "save",
             "apply", "reload"}
  /\ editor \in {"device", "web", "portal"} /\ put \in 0..Len(Order)
  /\ exit \in {"free", "blocked", "restart"}

\* As it left the factory, as an earlier firmware left it, and as this one does.
Init ==
  /\ \E policy \in {0, 1}, rest \in {0, 1} :
       /\ policy <= rest
       /\ nvs = [f \in Field |-> IF f = "policy" THEN policy
                                 ELSE IF f \in {"text", "look"} THEN 1 ELSE rest]
  /\ ram = nvs /\ copy = nvs /\ form = nvs /\ told = [nvs EXCEPT !["policy"] = 1]
  /\ asked = [f \in Field |-> {}]
  /\ pc = "boot" /\ edited = {} /\ editor = "device" /\ put = 0 /\ exit = "free"
  /\ applied = 1 /\ unapplied = FALSE /\ stale = FALSE
  /\ left = [saves |-> MaxSaves, faults |-> MaxFaults, resets |-> MaxResets]

\* settingsAreComplete
Complete(s) == s["ssid"] # 0 /\ s["api"] # 0 /\ s["model"] # 0

Fault == left.faults > 0 /\ left' = [left EXCEPT !.faults = @ - 1]
Goto(place) == pc' = place /\ UNCHANGED left

\* Each save asks for a value of its own.
NewValue == MaxSaves + 2 - left.saves

-----------------------------------------------------------------------------
(* The start.                                                              *)

\* loadSettings, which stores a policy if there is none.
Read(new) == /\ nvs' = [nvs EXCEPT !["policy"] = IF @ = 0 THEN 1 ELSE @]
             /\ new' = nvs'

Load ==
  /\ pc = "boot" /\ Read(ram) /\ Goto("start")
  /\ UNCHANGED <<copy, saving, exit, applied, history>>

Dead ==
  /\ pc \in {"boot", "start"} /\ Fault /\ pc' = "dead"
  /\ UNCHANGED <<nvs, ram, copy, saving, exit, applied, history>>

OpenPortal ==
  /\ copy' = ram /\ exit' = "free" /\ Goto("portal")
  /\ UNCHANGED <<nvs, ram, saving>>

\* applyDisplayAndCpuSettings; what is not complete has to be set up.
Start ==
  /\ pc = "start" /\ applied' = ram["look"] /\ unapplied' = FALSE
  /\ IF Complete(ram) THEN Goto("device") /\ UNCHANGED <<nvs, ram, copy, saving, exit>>
     ELSE OpenPortal
  /\ UNCHANGED <<told, asked, stale>>

-----------------------------------------------------------------------------
(* The editors.                                                            *)

\* `base` with a new value in the fields of F is to be saved.
Ask(who, base, F, next) ==
  /\ left.saves > 0 /\ left' = [left EXCEPT !.saves = @ - 1]
  /\ form' = [f \in Field |-> IF f \in F THEN NewValue ELSE base[f]]
  /\ asked' = [f \in Field |-> asked[f] \cup (IF f \in F THEN {NewValue} ELSE {})]
  /\ edited' = F /\ editor' = who /\ put' = 0 /\ pc' = next
  /\ UNCHANGED <<nvs, ram, copy, exit, applied, told, unapplied, stale>>

\* connectSelectedWifi, once the network was joined.
PickWifi == pc = "device" /\ Ask("device", ram, {"ssid", "password"}, "save")

\* The instructions, the voice menu and the lifetime of a web session.
EditText == pc = "device" /\ Ask("device", ram, {"text"}, "save")

\* The device menu: saveAndApplyDeviceSettings.
EditLook == pc = "device" /\ Ask("device", ram, {"look"}, "save")

\* The master policy and that of new chats.
EditPolicy == pc = "device" /\ Ask("device", ram, {"policy"}, "save")

\* saveSelectedModel: one entry is written.
PickModel ==
  /\ pc = "device" /\ left.saves > 0 /\ left' = [left EXCEPT !.saves = @ - 1]
  /\ nvs' = [nvs EXCEPT !["model"] = NewValue] /\ ram' = [ram EXCEPT !["model"] = NewValue]
  /\ told' = [told EXCEPT !["model"] = NewValue]
  /\ asked' = [asked EXCEPT !["model"] = {}]
  /\ UNCHANGED <<copy, saving, pc, exit, applied, unapplied, stale>>

OpenWeb ==
  /\ pc = "device" /\ copy' = ram /\ Goto("web")
  /\ UNCHANGED <<nvs, ram, saving, exit, applied, history>>

\* handleSettings
WebSettings ==
  pc = "web" /\ \E F \in Groups \cup {{"model"}, Field \ {"api"}} : Ask("web", copy, F, "save")

\* The API profiles of the console.
WebProvider ==
  /\ pc = "web" /\ left.saves > 0 /\ left' = [left EXCEPT !.saves = @ - 1]
  /\ nvs' = [nvs EXCEPT !["api"] = NewValue] /\ copy' = [copy EXCEPT !["api"] = NewValue]
  /\ told' = [told EXCEPT !["api"] = NewValue]
  /\ asked' = [asked EXCEPT !["api"] = {}]
  /\ UNCHANGED <<ram, saving, pc, exit, applied, unapplied, stale>>

\* Mutant: the device goes on with the settings it had.
Reload_None ==
  /\ pc = "web" /\ Goto("reload")
  /\ edited' = {} /\ editor' = "web"
  /\ UNCHANGED <<nvs, ram, copy, form, put, exit, applied, history>>

\* openWebConsole, after it: the settings are read and applied again.
Reload ==
  /\ pc = "web" /\ Read(ram) /\ Goto("reload")
  /\ edited' = {} /\ editor' = "web"
  /\ UNCHANGED <<copy, form, put, exit, applied, history>>

ReloadRefused ==
  /\ pc = "web" /\ Fault /\ pc' = "device" /\ stale' = TRUE
  /\ UNCHANGED <<nvs, ram, copy, saving, exit, applied, told, asked, unapplied>>

\* openLocalSetup
Setup ==
  /\ pc = "device" /\ OpenPortal
  /\ UNCHANGED <<applied, history>>

\* saveSubmittedSettings and saveProvisionedSettings: first the API profile.
Submit ==
  pc = "portal" /\ \E F \in {{"ssid", "password", "model", "api"}, {"ssid", "api"}, {"look", "api"}} :
    Ask("portal", copy, F, "provider")

Provider ==
  /\ pc = "provider" /\ nvs' = [nvs EXCEPT !["api"] = form["api"]]
  /\ told' = [told EXCEPT !["api"] = form["api"]] /\ asked' = [asked EXCEPT !["api"] = {}]
  /\ exit' = IF exit = "free" THEN "blocked" ELSE exit
  /\ Goto("save")
  /\ UNCHANGED <<ram, copy, saving, applied, unapplied, stale>>

\* Whether it was stored may not be known.
ProviderRefused ==
  /\ pc = "provider" /\ Fault /\ pc' = "portal"
  /\ \/ UNCHANGED <<nvs, exit>>
     \/ /\ nvs' \in {nvs, [nvs EXCEPT !["api"] = form["api"]]}
        /\ exit' = IF exit = "free" THEN "blocked" ELSE exit
  /\ UNCHANGED <<ram, copy, saving, applied, history>>

\* Only a portal in which nothing was stored is left without a restart.
LeavePortal ==
  /\ pc = "portal" /\ exit = "free" /\ Complete(ram) /\ Goto("device")
  /\ UNCHANGED <<nvs, ram, copy, saving, exit, applied, history>>

Restart ==
  /\ pc = "portal" /\ exit = "restart" /\ Goto("boot")
  /\ UNCHANGED <<nvs, ram, copy, saving, exit, applied, history>>

-----------------------------------------------------------------------------
(* saveSettings                                                            *)

Put ==
  /\ pc = "save" /\ put < Len(Order) /\ put' = put + 1
  /\ nvs' = [nvs EXCEPT ![Order[put + 1]] = form[Order[put + 1]]]
  /\ UNCHANGED <<ram, copy, form, edited, pc, editor, exit, applied, history, left>>

\* A put or the reading back is refused: the entries written so far stay.
SaveRefused ==
  /\ pc = "save" /\ Fault /\ pc' = editor
  /\ UNCHANGED <<nvs, ram, copy, saving, exit, applied, history>>

Report ==
  /\ told' = [f \in Field |-> IF f \in edited THEN form[f] ELSE told[f]]
  /\ asked' = [f \in Field |-> IF f \in edited THEN {} ELSE asked[f]]
  /\ UNCHANGED stale

\* Everything was written and read back.
Saved ==
  /\ pc = "save" /\ put = Len(Order)
  /\ Goto(IF editor = "device" /\ edited = {"look"} THEN "apply" ELSE editor)
  /\ IF editor = "device" THEN ram' = form /\ UNCHANGED copy ELSE copy' = form /\ UNCHANGED ram
  /\ exit' = IF editor = "portal" THEN "restart" ELSE exit
  /\ IF pc' = "apply" THEN UNCHANGED <<told, asked, stale>> ELSE Report
  /\ UNCHANGED <<nvs, saving, applied, unapplied>>

\* applyDisplayAndCpuSettings and applyWifiPowerSetting
Apply ==
  /\ pc \in {"apply", "reload"} /\ Goto("device")
  /\ applied' = ram["look"] /\ unapplied' = FALSE /\ Report
  /\ UNCHANGED <<nvs, ram, copy, saving, exit>>

ApplyRefused ==
  /\ pc \in {"apply", "reload"} /\ Fault /\ pc' = "device"
  /\ applied' \in {applied, ram["look"]} /\ unapplied' = TRUE
  /\ UNCHANGED <<nvs, ram, copy, saving, exit, told, asked, stale>>

Reset ==
  /\ pc # "boot" /\ left.resets > 0 /\ left' = [left EXCEPT !.resets = @ - 1]
  /\ pc' = "boot"
  /\ ram' = nvs /\ copy' = nvs /\ form' = nvs
  /\ edited' = {} /\ editor' = "device" /\ put' = 0 /\ exit' = "free"
  /\ UNCHANGED <<nvs, applied, history>>

Next ==
  \/ Load \/ Dead \/ Start \/ PickWifi \/ EditText \/ EditLook \/ EditPolicy \/ PickModel
  \/ OpenWeb \/ WebSettings \/ WebProvider \/ Reload \/ ReloadRefused
  \/ Setup \/ Submit \/ Provider \/ ProviderRefused \/ LeavePortal \/ Restart
  \/ Put \/ SaveRefused \/ Saved \/ Apply \/ ApplyRefused \/ Reset

Spec == Init /\ [][Next]_vars

-----------------------------------------------------------------------------
\* A setting has the value that was last reported, or one that an attempt which
\* reported no success has asked for since: no editor undoes another's work.
\* The device uses what is stored and the hardware shows it, unless it refused.
\* (Not so when the settings could not be read again after the web console:
\* the next edit on the device then takes back what was saved there.)
SettingsAreAsTold ==
  ~stale =>
    /\ \A f \in Field : nvs[f] \in {told[f], 0} \cup asked[f]
    /\ nvs["policy"] = 0 => pc \in {"boot", "dead"}
    /\ pc = "device" => \A f \in Field : ram[f] \in {told[f]} \cup asked[f]
    /\ pc = "device" /\ ~unapplied => applied = ram["look"]
=============================================================================
