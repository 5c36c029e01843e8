------------------------ MODULE StorageConfiguration ------------------------
(***************************************************************************)
(* What the Storage settings of a host mean                                *)
(* (Infrastructure/Configuration/StorageOptionsAccessor.cs).  They are     *)
(* read once, when the host starts.                                        *)
(*                                                                         *)
(* A settings record has a section (the keys under "Storage") and the flat *)
(* keys of the same names.  Unset stands for a key that is missing or      *)
(* empty.  A text is the name of a member of an enumeration, a numeral, or *)
(* something else; a base path is Blank (white space) or a record of       *)
(* whether it is rooted and of its names.                                  *)
(***************************************************************************)
EXTENDS Integers

CONSTANTS
    Unset,             \* a key that is missing or empty
    Blank,             \* a base path of white space only
    Numerals,          \* the texts that are numbers, with their values
    DefaultBasePath    \* ".puxdfw"

ASSUME StorageConfigurationAssumption ==
    /\ Unset # Blank
    /\ DefaultBasePath \notin {Unset, Blank}
    /\ DefaultBasePath.rooted = FALSE

Json == 1
MessagePack == 2

AppDataMode == 1
PerRootMode == 2

(* Mutant of Setting: the section wins.                                    *)
SectionFirst(settings, key, default) ==
    IF settings.section[key] # Unset THEN settings.section[key]
    ELSE IF settings.flat[key] # Unset THEN settings.flat[key]
    ELSE default

(* The flat key wins over the section, the section over the default.       *)
Setting(settings, key, default) ==
    IF settings.flat[key] # Unset THEN settings.flat[key]
    ELSE IF settings.section[key] # Unset THEN settings.section[key]
    ELSE default

(* Enum.TryParse takes the name of a member or any number, one that no     *)
(* member has included.                                                    *)
TryParse(text, members, default) ==
    IF text \in DOMAIN members THEN members[text]
    ELSE IF text \in DOMAIN Numerals THEN Numerals[text]
    ELSE default

StorageFormat(settings) ==
    TryParse(Setting(settings, "StorageFormat", "Json"),
             [Json |-> 1, MessagePack |-> 2], Json)

Mode(settings) ==
    TryParse(Setting(settings, "Mode", "AppData"),
             [AppData |-> 1, PerRoot |-> 2], AppDataMode)

BasePath(settings) == Setting(settings, "BasePath", DefaultBasePath)
=============================================================================
