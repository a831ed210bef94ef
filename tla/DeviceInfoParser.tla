--------------------------- MODULE DeviceInfoParser ---------------------------
(***************************************************************************)
(* What DeviceInfoProvider makes of a device info document                 *)
(* (core/src/device_info.cpp, device_info_definitions.h).  The document is *)
(* memory of fields, as BsonBuilder leaves it, and every function below    *)
(* walks it with the reader's own operations.                              *)
(***************************************************************************)
EXTENDS BsonReader, FiniteSets

CONSTANT
    VariableRefs   \* text of a variable -> [dev, id]: what stands around its ':'

(***************************************************************************)
(* The tables of names; an enumerator is its name.                         *)
(***************************************************************************)
device_role_ids ==
    <<"wheel", "wheelbase", "throttle_pedal", "brake_pedal", "handbrake", "clutch_pedal",
      "gear_stick", "button_box", "hub", "unknown", "other">>

control_type_ids ==
    <<"wheelbase", "wheel", "pedal", "paddle", "hat_switch", "button", "toggle_switch",
      "dir_2way", "dir_4way", "rot_enc", "funky_switch", "light", "unknown", "other">>

feedback_type_ids ==
    <<"direct_input", "wheelbase", "active_pedal", "rgb_light", "light", "unknown", "other">>

input_role_ids ==
    <<"steering", "throttle", "brake", "clutch", "clutch_secondary", "clutch_primary",
      "gear_shift", "gear_shift_up", "gear_shift_down", "handbrake", "ignition", "starter",
      "headlight_toggle", "high_beam_toggle", "headlight_flash", "pit_limiter", "overtake",
      "drs", "traction_control_toggle", "traction_control_increase",
      "traction_control_decrease", "tear_off_visor", "trigger_windshield_wipers",
      "toggle_windshield_wipers", "brake_bias_increase", "brake_bias_decrease",
      "front_antiroll_bar_increase", "front_antiroll_bar_decrease",
      "rear_antiroll_bar_increase", "rear_antiroll_bar_decrease", "fuel_map_increase",
      "fuel_map_decrease", "turbo_pressure_increase", "turbo_pressure_decrease",
      "abs_adjust", "abs_increase", "abs_decrease", "front_wing_increase",
      "front_wing_decrease", "rear_wing_increase", "rear_wing_decrease",
      "diff_preload_increase", "diff_preload_decrease", "diff_entry_increase",
      "diff_entry_decrease", "diff_middle_increase", "diff_middle_decrease",
      "diff_exit_increase", "diff_exit_decrease", "throttle_shaping_increase",
      "throttle_shaping_decrease", "mgu_k_re_gen_gain_increase",
      "mgu_k_re_gen_gain_decrease", "mgu_k_deploy_mode_increase",
      "mgu_k_deploy_mode_decrease", "mgu_k_fixed_deploy_increase",
      "mgu_k_fixed_deploy_decrease", "low_fuel_accept", "fcy_mode_toggle", "next_dash_page",
      "previous_dash_page", "left_indicator", "right_indicator", "kers", "horn",
      "reset_vehicle", "enter_vehicle", "exit_vehicle", "launch_control", "abs_value_0",
      "abs_value_1", "abs_value_2", "abs_value_3", "abs_value_4", "abs_value_5",
      "abs_value_6", "abs_value_7", "abs_value_8", "abs_value_9", "abs_value_10",
      "abs_value_11", "tc_adjust", "tc_value_0", "tc_value_1", "tc_value_2", "tc_value_3",
      "tc_value_4", "tc_value_5", "tc_value_6", "tc_value_7", "tc_value_8", "tc_value_9",
      "tc_value_10", "tc_value_11", "tc2_value_0", "tc2_value_1", "tc2_value_2",
      "tc2_value_3", "tc2_value_4", "tc2_value_5", "tc2_value_6", "tc2_value_7",
      "tc2_value_8", "tc2_value_9", "tc2_value_10", "tc2_value_11", "enter", "back", "up",
      "down", "left", "right", "pause", "next_overlay_page", "previous_overlay_page",
      "lap_timing_overlay_page", "standings_overlay_page", "relative_overlay_page",
      "fuel_overlay_page", "tires_overlay_page", "tire_info_overlay_page",
      "pit_stop_adjustments_overlay_page", "in_car_adjustments_overlay_page",
      "mirror_adjustments_overlay_page", "radio_adjustments_overlay_page",
      "weather_overlay_page", "select_next_control", "select_previous_control",
      "increment_selected_control", "decrement_selected_control", "toggle_selected_control",
      "toggle_dash_box", "prev_splits_delta_display", "next_splits_delta_display",
      "increase_field_of_view", "decrease_field_of_view", "shift_horizon_up",
      "shift_horizon_down", "increase_driver_height", "decrease_driver_height",
      "recenter_tilt_axis", "glance_left", "glance_right", "glance_back", "change_camera",
      "move_forward", "move_backward", "move_left", "move_right", "mark_event_in_telemetry",
      "active_reset_save_start_point", "active_reset_run", "spotter_silence",
      "damage_report", "ffb_gain_increase", "ffb_gain_decrease", "in_game_push_to_talk",
      "external_push_to_talk", "chat_sorry", "chat_thanks", "chat_enter_pit",
      "chat_exit_pit", "mute", "volume_increase", "volume_decrease", "unknown", "unmapped",
      "other">>

input_type_ids ==
    <<"axis", "button", "inc_rot_enc", "abs_rot_enc", "unknown", "other">>

(* The *FromString functions: a name before the last, or other. *)
FromString(ids, s) == IF \E i \in 1 .. Len(ids) - 1 : ids[i] = s THEN s ELSE "other"

(***************************************************************************)
(* Loops over the elements of a document.                                  *)
(***************************************************************************)
(* The readers a loop of next() sees until the end; one that enters the sub documents
   leaves them with endSub(), wherever in them it stopped. *)
RECURSIVE VisitedFrom(_, _, _)
VisitedFrom(m, n, enters) ==
    IF n.type \notin ElementTypes THEN << >>
    ELSE <<n>> \o VisitedFrom(m, next(m, IF n.type \in enters THEN endSub(beginSub(m, n)) ELSE n),
                             enters)

Visited(m, r, enters) == VisitedFrom(m, next(m, r), enters)

Docs(m, r)           == SelectSeq(Visited(m, r, {"DOC"}), LAMBDA n : n.type = "DOC")
Inside(m, n, enters) == Visited(m, beginSub(m, n), enters)

(* The element of type t and key k that is seen last: assignments overwrite. *)
Hits(els, t, k)    == {i \in DOMAIN els : els[i].type = t /\ els[i].key.name = k}
Last(els, t, k)    == els[CHOOSE i \in Hits(els, t, k) : \A j \in Hits(els, t, k) : j <= i]
Str(m, els, k, default) ==
    IF Hits(els, "STR", k) = {} THEN default ELSE ValueAt(m, Last(els, "STR", k))
Enum(m, els, k, ids, default) ==
    IF Hits(els, "STR", k) = {} THEN default ELSE FromString(ids, ValueAt(m, Last(els, "STR", k)))

(* The fields of the document that starts at offset o, on their own. *)
subdocument(m, o) == [x \in {y - o : y \in {z \in DOMAIN m : z >= o}} |-> m[x + o]]
ReaderAt(m)       == Reader(m, IntAt(m, 0))

Name(n, l) == [arr |-> -1, name |-> n, len |-> l]

(* A mutant: the search goes on from where the reader is. *)
Found_Next(m, r, k) == ScanKey(m, r, k)

(* tryFindAndGet: the first element with the key, when its type converts. *)
Found(m, r, k)  == ScanKey(m, seekBegin(r), k)
Numeric         == {"I32", "I64", "DOUBLE"}

(***************************************************************************)
(* The sections of a device.                                               *)
(***************************************************************************)
Control(m, id, els) ==
    [id |-> id, name |-> Str(m, els, "name", ""),
     type |-> Enum(m, els, "role", control_type_ids, "unknown"),
     parent |-> Str(m, els, "parent", "")]

parseControls(m, docs) ==
    [i \in DOMAIN docs |-> Control(m, docs[i].key.name, Inside(m, docs[i], {}))]

(* "<device id>:<variable>", or a variable of this device. *)
VariableOf(text, this) ==
    LET p == VariableRefs[text] IN
    IF p.dev # "none" THEN p ELSE [dev |-> this, id |-> text]

Input(m, id, els, this) ==
    LET var == Str(m, els, "variable", "") IN
    [id |-> id, control |-> Str(m, els, "control", ""),
     type |-> Enum(m, els, "type", input_type_ids, "unknown"),
     role |-> Enum(m, els, "role", input_role_ids, "unknown"),
     variable |-> IF var = "" THEN [dev |-> "0", id |-> ""] ELSE VariableOf(var, this)]

parseInputs(m, docs, this) ==
    [i \in DOMAIN docs |-> Input(m, docs[i].key.name, Inside(m, docs[i], {}), this)]

(* The parameters are the last sub document, whatever its key. *)
Feedback(m, id, els) ==
    LET params == {j \in DOMAIN els : els[j].type = "DOC"} IN
    [id |-> id, control |-> Str(m, els, "control", ""),
     type |-> Enum(m, els, "type", feedback_type_ids, "unknown"),
     params |-> IF params = {} THEN ""
                ELSE els[CHOOSE j \in params : \A l \in params : l <= j].key.name]

parseFeedbacks(m, docs) ==
    [i \in DOMAIN docs |-> Feedback(m, docs[i].key.name, Inside(m, docs[i], {}))]

(* Any 32 bit integer of a mapping is its device. *)
Mapping(m, els) ==
    LET ints == {j \in DOMAIN els : els[j].type = "I32"} IN
    [input |-> Str(m, els, "input", ""),
     dev |-> IF ints = {} THEN "0"
             ELSE ValueAt(m, els[CHOOSE j \in ints : \A l \in ints : l <= j])]

parseMappings(m, docs) == [i \in DOMAIN docs |-> Mapping(m, Inside(m, docs[i], {}))]

(* The mappings of a control: those of the last array with that key. *)
MappingsIn(m, els) ==
    IF Hits(els, "ARRAY", "mappings") = {} THEN << >>
    ELSE parseMappings(m, Docs(m, beginSub(m, Last(els, "ARRAY", "mappings"))))

(* Two integers at the start of the array, or nothing. *)
TwoInts(m, e) ==
    IF Len(e) >= 2 /\ e[1].type = "I32" /\ e[2].type = "I32"
      THEN <<ValueAt(m, e[1]), ValueAt(m, e[2])>> ELSE << >>

RangeIn(m, els) ==
    IF Hits(els, "ARRAY", "range") = {} THEN << >>
    ELSE TwoInts(m, Inside(m, Last(els, "ARRAY", "range"), {}))

Indeterminate == "indeterminate"   \* HidAxisInput leaves its role uninitialized

HidAxis(m, els) ==
    [role |-> Enum(m, els, "role", input_role_ids, Indeterminate), range |-> RangeIn(m, els),
     mappings |-> MappingsIn(m, els)]

HidButton(m, els) ==
    [role |-> Enum(m, els, "role", input_role_ids, "unknown"), mappings |-> MappingsIn(m, els)]

parseHidAxisInputs(m, docs) ==
    [i \in DOMAIN docs |-> HidAxis(m, Inside(m, docs[i], {"ARRAY"}))]
parseHidButtonInputs(m, docs) ==
    [i \in DOMAIN docs |-> HidButton(m, Inside(m, docs[i], {"ARRAY"}))]

parseHidInputs(m, els) ==
    [axis    |-> IF Hits(els, "ARRAY", "axis") = {} THEN << >>
                 ELSE parseHidAxisInputs(m, Docs(m, beginSub(m, Last(els, "ARRAY", "axis")))),
     buttons |-> IF Hits(els, "ARRAY", "buttons") = {} THEN << >>
                 ELSE parseHidButtonInputs(m, Docs(m, beginSub(m, Last(els, "ARRAY", "buttons"))))]

(***************************************************************************)
(* A device, and the devices of a document.                                *)
(***************************************************************************)
NoDevice == [uid |-> "", id |-> "0"]

(* The sub documents of the section k, and its elements when it has arrays. *)
Section(m, els, k) ==
    IF Hits(els, "DOC", k) = {} THEN << >> ELSE Docs(m, beginSub(m, Last(els, "DOC", k)))
HidSection(m, els) ==
    IF Hits(els, "DOC", "hid_input") = {} THEN << >>
    ELSE Inside(m, Last(els, "DOC", "hid_input"), {"ARRAY"})

IntOf(m, els, k) == IF Hits(els, "I32", k) = {} THEN "0" ELSE ValueAt(m, Last(els, "I32", k))

UsbOf(m, els, usb_path) ==
    IF usb_path = "" THEN << >> ELSE <<usb_path, IntOf(m, els, "usb_pid"), IntOf(m, els, "usb_vid")>>

(* What the elements els behind device_uid say of the device. *)
Described(m, els, uid, this) ==
    [uid |-> uid, id |-> this,
     role |-> Enum(m, els, "role", device_role_ids, device_role_ids[1]),
     connected |-> IF Hits(els, "BOOL", "is_connected") = {} THEN "false"
                   ELSE ValueAt(m, Last(els, "BOOL", "is_connected")),
     usb |-> UsbOf(m, els, Str(m, els, "usb_path", "")),
     controls |-> parseControls(m, Section(m, els, "control")),
     inputs |-> parseInputs(m, Section(m, els, "input"), this),
     feedbacks |-> parseFeedbacks(m, Section(m, els, "feedback")),
     hid |-> parseHidInputs(m, HidSection(m, els))]

DescribedBehind(m, logical, uid) ==
    IF logical.type \notin Numeric \/ uid.type # "STR" THEN NoDevice
    ELSE Described(m, Visited(m, uid, {"DOC"}), ValueAt(m, uid), ValueAt(m, logical))

(* Data::parse: both ids must be there; what follows device_uid fills in the rest.  The
   document was validated when it was installed, so that no reader of it fails. *)
ParseFrom(m, logical) ==
    DescribedBehind(m, logical, Found(m, logical, Name("device_uid", 10)))
parse(m) == ParseFrom(m, Found(m, ReaderAt(m), Name("logical_id", 10)))

(* parseDeviceInfo(): a device that does not parse is left out. *)
parseDeviceInfo(m) ==
    LET els == SelectSeq(Visited(m, ReaderAt(m), {}), LAMBDA n : n.type = "DOC")
    IN  SelectSeq([i \in DOMAIN els |-> parse(subdocument(m, els[i].off))],
                  LAMBDA d : d # NoDevice)
==============================================================================
