--------------------------- MODULE Configuration ---------------------------
(***************************************************************************)
(* The settings of the controller and the ConfigMap they come from: the    *)
(* text under each key, and what a process makes of it.                    *)
(***************************************************************************)
CONSTANTS Setting,      \* the keys: the four ratios and defaultClaimSpec
          None          \* no ConfigMap, or no settings yet

\* The text is missing or empty, does not parse, parses as null (blanks, a
\* comment, "null"), or is a proper value.
Raw == {"missing", "malformed", "blank", "proper"}
Value == {"default", "zero", "configured"}

ConfigMap == [Setting -> Raw]
Settings == [Setting -> Value]

\* Each key falls back on its own.  A null is no error for the decoder and
\* leaves the zero value of the type.
parseConfigMap(configMap) ==
    [s \in Setting |-> CASE configMap[s] \in {"missing", "malformed"} -> "default"
                         [] configMap[s] = "blank" -> "zero"
                         [] OTHER -> "configured"]

generateDefaultSettings == [s \in Setting |-> "default"]
=============================================================================
