---------------------------- MODULE Capabilities ----------------------------
(***************************************************************************)
(* The kinds of capabilities (capabilities/*.py), by what they have        *)
(* different: the state that read_state makes of a device's answer, what   *)
(* it makes up when there is none, the properties that look into the state *)
(* and the commands.  Each command sends what it sets and expects to see   *)
(* it in the answer to a poll: it is a function from the fields of an      *)
(* answer to values.  A value is the default that the code takes for a     *)
(* field that is missing (False, 0.0, white, "unknown", "off"), or another *)
(* one; a number out of a command's range is clamped into it.              *)
(***************************************************************************)
EXTENDS TLC

(* Keys kept from the fields of their own names. *)
Themselves(keys) == [key \in keys |-> {key}]

Values == {"default", "other"}

On(field) == field :> "other"
Off(field) == field :> "default"
Sets(field) == {field :> v : v \in Values}
SetsAlso(order, field) == {order @@ other : other \in Sets(field)}

(* keeps: the keys of read_state's dictionary, and the names that a device *)
(* may have each under in its answer: read_state takes it from any.        *)
(* shows: the properties, and the keys they look up.                       *)
(* makesUp: does read_state return a state if the poll fails, or raise?    *)
(* orders: the commands.                                                   *)
Switchable ==
    [keeps |-> "power" :> {"power", "state"},
     shows |-> "is_on" :> "power",
     makesUp |-> FALSE,
     orders |-> {On("power"), Off("power")}]

Dimmable ==
    [keeps |-> "power" :> {"power", "state"}
                 @@ Themselves({"brightness", "brightness_percent"}),
     shows |-> "is_on" :> "power" @@ "brightness" :> "brightness",
     makesUp |-> TRUE,
     orders |-> {On("power"), Off("power") @@ Off("brightness")}
                  \cup SetsAlso(On("power"), "brightness")
                  \cup Sets("brightness")]

(* The fields r, g and b are one here, and hsv is no field of the state.   *)
RGBLight ==
    [keeps |-> "color" :> {"rgb"}
                 @@ Themselves({"power", "brightness", "color_mode", "effect"}),
     shows |-> "is_on" :> "power" @@ "brightness" :> "brightness" @@ "color" :> "color",
     makesUp |-> TRUE,
     orders |-> {On("power"), Off("power")}
                  \cup SetsAlso(On("power"), "rgb") \cup SetsAlso(On("power"), "brightness")
                  \cup Sets("rgb") \cup Sets("hsv") \cup Sets("brightness")
                  \cup Sets("effect")]

Motor ==
    [keeps |-> Themselves({"position", "speed", "moving", "homed"}),
     shows |-> "position" :> "position" @@ "is_moving" :> "moving",
     makesUp |-> TRUE,
     orders |-> SetsAlso(Off("moving"), "position") \cup Sets("speed")
                  \cup {Off("moving"), Off("position") @@ On("homed")}]

Sensor ==
    [keeps |-> "value" :> {"value", "reading"} @@ Themselves({"unit", "timestamp"}),
     shows |-> "value" :> "value",
     makesUp |-> TRUE,
     orders |-> {On("calibrated")}]

Thermostat ==
    [keeps |-> Themselves({"temperature", "target_temperature", "mode", "fan_running",
                            "heating", "cooling"}),
     shows |-> "temperature" :> "temperature" @@ "target_temperature" :> "target_temperature"
                 @@ "mode" :> "mode" @@ "is_heating" :> "heating" @@ "is_cooling" :> "cooling",
     makesUp |-> TRUE,
     orders |-> Sets("target_temperature") \cup Sets("mode") \cup Sets("fan_running")]

(* reset_counter expects to see a key of the state, not a field.           *)
EnergyMonitor ==
    [keeps |-> "power_watts" :> {"power"} @@ "current_amps" :> {"current"}
                 @@ "energy_kwh" :> {"energy"} @@ "frequency_hz" :> {"frequency"}
                 @@ Themselves({"voltage", "power_factor", "cost_today"}),
     shows |-> "power" :> "power_watts" @@ "today_cost" :> "cost_today",
     makesUp |-> TRUE,
     orders |-> {Off("energy_kwh")}]

Lock ==
    [keeps |-> Themselves({"lock_state", "battery_level", "last_user", "door_open"}),
     shows |-> "is_locked" :> "lock_state" @@ "battery_level" :> "battery_level",
     makesUp |-> TRUE,
     orders |-> {On("lock_state"), Off("lock_state")}]

Kinds == {Switchable, Dimmable, RGBLight, Motor, Sensor, Thermostat, EnergyMonitor, Lock}

(* The names that a condition may ask for: a property, or else a key of    *)
(* the state; the key that is looked up; the fields it may stand for, one  *)
(* of them for any one device.                                             *)
Names(kind) == DOMAIN kind.shows \cup DOMAIN kind.keeps
Key(kind, name) == IF name \in DOMAIN kind.shows THEN kind.shows[name] ELSE name
Fields(kind, name) == kind.keeps[Key(kind, name)]

(* A confirmed command leaves the answer itself in the cache, not the      *)
(* state read_state would make of it: a key that the answer has under      *)
(* another name is not found there.                                        *)
Renamed(kind, name, field) == field # Key(kind, name)

(* What the commands do to that field: the value each sets and expects, or *)
(* None, if it is about other fields; Unmet, if it expects the value under *)
(* a name that the device has not, and never sees it.                      *)
None == "none"
Unmet == "unmet"
About(order, kind, name, field) ==
    IF field \in DOMAIN order THEN order[field]
    ELSE IF Fields(kind, name) \cap DOMAIN order # {} THEN Unmet
    ELSE None

(* All that a watcher of one name can tell kinds and devices apart by.     *)
Profile(kind, name, field) ==
    [makesUp |-> kind.makesUp, renamed |-> Renamed(kind, name, field),
     orders |-> {About(order, kind, name, field) : order \in kind.orders}]

ProfilesOf(kind, names) ==
    UNION {{Profile(kind, name, field) : field \in Fields(kind, name)} : name \in names}

(* A smart plug passes each name it shows on to its switch or its meter,   *)
(* which have cached states of their own; on and off are the switch's, and *)
(* there are no commands for the meter.                                    *)
SmartPlug ==
    ProfilesOf(Switchable, {"is_on"})
      \cup {[profile EXCEPT !.orders = {}] :
              profile \in ProfilesOf(EnergyMonitor, DOMAIN EnergyMonitor.shows)}

Profiles == SmartPlug \cup UNION {ProfilesOf(kind, Names(kind)) : kind \in Kinds}
=============================================================================
