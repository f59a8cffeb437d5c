---------------------------- MODULE SettingsProofs ----------------------------
(***************************************************************************)
(* What Settings keeps, for any servers, users and device ids, any edits   *)
(* by hand of what may be edited, and any number of them.                  *)
(***************************************************************************)
EXTENDS Settings, SequenceTheorems, TLAPS

AllKeys == {"server", "token", "userid", "ssl_verifyhost", "client", "device", "deviceid",
            "version", "mpv_profile", "try_local_files", "check_updates"}

Points == {"down", "read", "ask", "url", "login", "open", "close", "rename", "connect", "running"}

\* A value that a line may have: one the program accepts, or the default.
Sound(k, v) == v \in Values /\ (Accepts(k, v) \/ (k = "ssl_verifyhost" /\ v = "true"))

\* The options have values, but for those that may be NULL.
OptionsInv ==
    pc # "down" =>
        /\ options \in [Keys -> Values \cup {NULL}]
        /\ \A k \in Keys \ (Fundamental \cup {"mpv_profile"}) : options[k] # NULL
        /\ options["server"] \in Servers \cup {NULL}
        /\ options["version"] = "current"
        /\ options["ssl_verifyhost"] \in {"true", "false"}
        /\ options["try_local_files"] \in {"no", "yes", "force"}
        /\ \A k \in Arrays : options[k] \notin DOMAIN Cuts \cup {Empty}

\* What each point of the start knows.
PointInv ==
    /\ pc \in Points
    /\ state \in {"STARTING", "STARTING_LOGIN", "STARTING_FULL_CONFIG"}
    /\ pc = "read" => /\ state # "STARTING_FULL_CONFIG"
                      /\ \A k \in Fundamental : options[k] = NULL
                      /\ options["ssl_verifyhost"] = "true"
    /\ pc = "url" => state = "STARTING_FULL_CONFIG"
    /\ pc = "login" => state # "STARTING" /\ options["server"] # NULL
    /\ pc \in {"open", "close", "rename"} =>
         /\ \A k \in Fundamental : options[k] # NULL
         /\ options["token"] = options["userid"] /\ options["token"][1] = options["server"]
    /\ pc = "rename" => tmp = Lines(options)
    /\ pc \in {"connect", "running"} => state = "STARTING"

\* A file has lines that make sense.
FileInv ==
    settings # NULL =>
        /\ DOMAIN settings \in SUBSET Keys
        /\ settings = [k \in DOMAIN settings |-> settings[k]]
        /\ \A k \in DOMAIN settings : Sound(k, settings[k])
        /\ "server" \in DOMAIN settings => settings["server"] \in Servers

Lasting == Keys \ {"check_updates"}

\* The wish to have host names verified, which may stay without effect.
Verified(k, w) == <<k, w>> = <<"ssl_verifyhost", "true">>

\* A value is what a wish comes to, once it is stored; and so is a line of the file.
InForce(k, v, w) == Verified(k, w) \/ v = Stored(k, w)
InFile(k, v, w) == (Verified(k, w) \/ Stored(k, v) = Stored(k, w)) /\ (k \in Arrays => v # Empty)

\* A wish is in the file.
WishInv ==
    /\ wish \in [Keys -> Values \cup {NULL}]
    /\ wish["version"] \in {NULL, "current"}
    /\ \A k \in Lasting : wish[k] # NULL =>
         settings # NULL /\ k \in DOMAIN settings /\ InFile(k, settings[k], wish[k])

\* What the user is asked for anew in this start.
Asked ==
    CASE state = "STARTING" -> {}
      [] state = "STARTING_LOGIN" -> {"token", "userid"}
      [] OTHER -> Fundamental \cup {"ssl_verifyhost"}

\* Once the file is read, a wish is an option unless it is asked for anew.
KeptInv ==
    pc \notin {"down", "read"} =>
        \A k \in Lasting \ Asked : wish[k] # NULL => InForce(k, options[k], wish[k])

\* What is answered is what was asked for, and is an option; before the writing all is.
AnswersInv ==
    /\ answers \in [Keys -> Values \cup {NULL}]
    /\ \A k \in Keys : answers[k] # NULL => k \in Asked /\ InForce(k, options[k], answers[k])
    /\ pc \in {"open", "close", "rename"} => \A k \in Asked : answers[k] # NULL
    /\ pc = "login" /\ state = "STARTING_FULL_CONFIG" =>
         answers["server"] # NULL /\ answers["ssl_verifyhost"] # NULL
    /\ pc \in {"down", "read", "ask", "url"} => \A k \in Keys : answers[k] = NULL

IInv == OptionsInv /\ PointInv /\ FileInv /\ SettingsWhole /\ WishInv /\ KeptInv /\ AnswersInv

-----------------------------------------------------------------------------
(* The keys and what a file is read as                                     *)

\* The lines that are written, as a set.
LEMMA WrittenKeys ==
  /\ WriteOrder \in Seq(AllKeys) /\ Len(WriteOrder) = 10
  /\ ToSet(WriteOrder) = AllKeys \ {"check_updates"}
<1>1. WriteOrder \in Seq(AllKeys)
  BY DEF WriteOrder, AllKeys
<1>2. Len(WriteOrder) = 10
  BY DEF WriteOrder
<1>3. ToSet(WriteOrder) = AllKeys \ {"check_updates"}
  BY DEF ToSet, WriteOrder, AllKeys
<1> QED  BY <1>1, <1>2, <1>3

\* The lines in order.
LEMMA LinesAre ==
  /\ DOMAIN LineOrder = 1 .. 11
  /\ \A n \in 1 .. 10 : LineOrder[n] = WriteOrder[n]
  /\ LineOrder[11] = "check_updates"
<1>1. "check_updates" \in AllKeys
  BY DEF AllKeys
<1>2. /\ LineOrder \in Seq(AllKeys) /\ Len(LineOrder) = Len(WriteOrder) + 1
      /\ \A n \in 1 .. Len(WriteOrder) : LineOrder[n] = WriteOrder[n]
      /\ LineOrder[Len(WriteOrder) + 1] = "check_updates"
  <2> DEFINE c == "check_updates"
  <2>1. c \in AllKeys /\ WriteOrder \in Seq(AllKeys)
    BY <1>1, WrittenKeys
  <2> HIDE DEF c
  <2>2. /\ Append(WriteOrder, c) \in Seq(AllKeys)
        /\ Len(Append(WriteOrder, c)) = Len(WriteOrder) + 1
        /\ \A n \in 1 .. Len(WriteOrder) : Append(WriteOrder, c)[n] = WriteOrder[n]
        /\ Append(WriteOrder, c)[Len(WriteOrder) + 1] = c
    BY <2>1, AppendProperties
  <2> QED  BY <2>2 DEF LineOrder, c
<1>3. DOMAIN LineOrder = 1 .. Len(LineOrder)
  BY <1>2, LenProperties
<1> QED  BY <1>2, <1>3, WrittenKeys

\* The keys, spelt out.
LEMMA KeysAre == Keys = AllKeys
<1>1. Keys = {WriteOrder[n] : n \in 1 .. 10} \cup {"check_updates"}
  BY LinesAre DEF Keys, ToSet
<1>2. ToSet(WriteOrder) = {WriteOrder[n] : n \in 1 .. 10}
  BY DEF ToSet, WriteOrder
<1> QED  BY <1>1, <1>2, WrittenKeys DEF AllKeys

\* No two lines are for one key.
LEMMA LinesDiffer ==
  ASSUME NEW m \in 1 .. 11, NEW n \in 1 .. 11, LineOrder[m] = LineOrder[n]
  PROVE  m = n
<1>1. \A k \in 1 .. 10, l \in 1 .. 10 : WriteOrder[k] = WriteOrder[l] => k = l
  BY DEF WriteOrder
<1>2. \A k \in 1 .. 10 : WriteOrder[k] # "check_updates"
  BY DEF WriteOrder
<1> QED  BY <1>1, <1>2, LinesAre

\* The order of the comparisons gives every line to the option of its name.
LEMMA OwnOption ==
  ASSUME NEW k \in Keys
  PROVE  OptionOf[k] = k
<1> DEFINE Matches == {n \in DOMAIN TestOrder : KeyIs(k, TestOrder[n])}
<1>1. DOMAIN TestOrder = 1 .. 11
  BY DEF TestOrder
<1>2. \E n \in Matches : TestOrder[n] = k /\ \A m \in Matches : n <= m
  BY KeysAre DEF AllKeys, TestOrder, KeyIs
<1>3. Min(Matches) \in Matches /\ TestOrder[Min(Matches)] = k
  BY <1>1, <1>2 DEF Min
<1> QED  BY <1>3 DEF OptionOf

\* Of every line that the program accepts the option of its name takes the value, and no
\* other line matters to it.
LEMMA ReadIs ==
  ASSUME NEW o, NEW file, NEW id, NEW k \in Keys
  PROVE  Read(o, file, id)[k] =
           IF k \in DOMAIN file /\ Accepts(k, file[k]) THEN Completed(k, Stored(k, file[k]), id)
           ELSE o[k]
<1> DEFINE LinesOf(l) == {n \in DOMAIN LineOrder :
                            /\ LineOrder[n] \in DOMAIN file /\ OptionOf[LineOrder[n]] = l
                            /\ Accepts(l, file[LineOrder[n]])}
<1>1. Read(o, file, id)[k] =
        IF LinesOf(k) = {} THEN o[k] ELSE Completed(k, Stored(k, file[LineOrder[Max(LinesOf(k))]]), id)
  BY DEF Read
<1>2. \A n \in 1 .. 11 : LineOrder[n] \in Keys
  BY LinesAre DEF Keys, ToSet
<1>3. PICK n \in 1 .. 11 : LineOrder[n] = k
  BY LinesAre DEF Keys, ToSet
<1>4. \A m \in LinesOf(k) : m = n
  BY <1>2, <1>3, LinesAre, LinesDiffer, OwnOption
<1>5. n \in LinesOf(k) <=> k \in DOMAIN file /\ Accepts(k, file[k])
  BY <1>3, LinesAre, OwnOption
<1>6. CASE n \in LinesOf(k)
  <2>1. LinesOf(k) = {n}
    BY <1>4, <1>6
  <2>2. Max(LinesOf(k)) = n
    BY <2>1 DEF Max
  <2> QED  BY <1>1, <1>3, <1>5, <1>6, <2>1, <2>2
<1>7. CASE n \notin LinesOf(k)
  <2>1. LinesOf(k) = {}
    BY <1>4, <1>7
  <2> QED  BY <1>1, <1>5, <1>7, <2>1
<1> QED  BY <1>6, <1>7

\* A file has a line for each option that is not NULL, except for the one the user keeps.
LEMMA LinesHave ==
  ASSUME NEW o
  PROVE  /\ DOMAIN Lines(o) = {k \in Lasting : o[k] # NULL}
         /\ \A k \in DOMAIN Lines(o) : Lines(o)[k] = o[k]
         /\ Lines(o) = [k \in DOMAIN Lines(o) |-> Lines(o)[k]]
<1>1. ToSet(WriteOrder) = Lasting
  BY WrittenKeys, KeysAre DEF Lasting
<1> QED  BY <1>1 DEF Lines

\* What is a value.
LEMMA ValuesHave ==
  /\ Servers \subseteq Values /\ (Servers \X Users) \subseteq Values /\ DeviceIds \subseteq Values
  /\ \A k \in DOMAIN Edits : Edits[k] \subseteq Values
  /\ \A v \in DOMAIN Cuts : Cuts[v] \in Values
  /\ {"true", "false", "no", "yes", "force", "jftui", "hostname", "current"} \subseteq Values
<1> DEFINE Logins == Servers \X Users
           Words == {"true", "false", "no", "yes", "force", "jftui", "hostname", "current"}
           ByHand == UNION {Edits[k] : k \in DOMAIN Edits}
           Pieces == {Cuts[v] : v \in DOMAIN Cuts}
<1>1. Values = Servers \cup Logins \cup DeviceIds \cup ByHand \cup Pieces \cup Words
  BY DEF Values
<1>2. \A k \in DOMAIN Edits : Edits[k] \subseteq ByHand
  OBVIOUS
<1>4. \A v \in DOMAIN Cuts : Cuts[v] \in Pieces
  OBVIOUS
<1> HIDE DEF Logins, Words, ByHand, Pieces
<1>3. /\ Servers \subseteq Values /\ Logins \subseteq Values /\ DeviceIds \subseteq Values
      /\ Words \subseteq Values /\ ByHand \subseteq Values /\ Pieces \subseteq Values
  BY <1>1
<1> QED  BY <1>2, <1>3, <1>4 DEF Logins, Words

\* NULL is no value.
LEMMA NullIsNone == NULL \notin Values
  BY NullAssumption

\* What is stored of a value is stored as it is, and it is not empty.
LEMMA StoredIs ==
  ASSUME NEW k \in Keys, NEW v \in Values
  PROVE  /\ Stored(k, v) \in Values
         /\ Stored(k, Stored(k, v)) = Stored(k, v)
         /\ k \in Arrays /\ v # Empty => Stored(k, v) \notin DOMAIN Cuts \cup {Empty}
         /\ k \notin Arrays => Stored(k, v) = v
<1>1. CASE k \in Arrays /\ v \in DOMAIN Cuts
  <2>1. Stored(k, v) = Cuts[v]
    BY <1>1 DEF Stored
  <2>2. Cuts[v] \in Values /\ Cuts[v] \notin DOMAIN Cuts \cup {Empty}
    BY <1>1, ValuesHave, CutsAssumption
  <2>3. Stored(k, Cuts[v]) = Cuts[v]
    BY <2>2 DEF Stored
  <2> QED  BY <1>1, <2>1, <2>2, <2>3
<1>2. CASE ~ (k \in Arrays /\ v \in DOMAIN Cuts)
  <2>1. Stored(k, v) = v
    BY <1>2 DEF Stored
  <2> QED  BY <1>2, <2>1
<1> QED  BY <1>1, <1>2

\* What an option has of a line is what is stored of it, unless an array is empty.
LEMMA CompletedIs ==
  ASSUME NEW k \in Keys, NEW v \in Values, NEW id \in DeviceIds
  PROVE  /\ Completed(k, Stored(k, v), id) \in Values
         /\ k \in Arrays => Completed(k, Stored(k, v), id) \notin DOMAIN Cuts \cup {Empty}
         /\ (k \in Arrays => v # Empty) => Completed(k, Stored(k, v), id) = Stored(k, v)
<1>1. CASE k \in Arrays /\ v = Empty
  <2>1. Stored(k, v) = Empty
    BY <1>1, CutsAssumption DEF Stored
  <2>2. k \in {"device", "deviceid"} /\ Completed(k, Stored(k, v), id) = Defaults(id)[k]
    BY <1>1, <2>1 DEF Completed, Arrays
  <2>3. Defaults(id)["device"] = "hostname" /\ Defaults(id)["deviceid"] = id
    BY KeysAre DEF AllKeys, Defaults
  <2>4. /\ id \in Values /\ "hostname" \in Values
        /\ {id, "hostname"} \cap (DOMAIN Cuts \cup {Empty}) = {}
    BY ValuesHave, CutsAssumption, DeviceIdsAssumption DEF Empty
  <2> QED  BY <1>1, <2>2, <2>3, <2>4
<1>2. CASE ~ (k \in Arrays /\ v = Empty)
  <2>1. k \in Arrays => Stored(k, v) # Empty
    BY <1>2, StoredIs
  <2>2. Completed(k, Stored(k, v), id) = Stored(k, v)
    BY <2>1 DEF Completed
  <2> QED  BY <1>2, <2>2, StoredIs
<1> QED  BY <1>1, <1>2

\* A file that is written is a file.
LEMMA FilesAre ==
  ASSUME NEW D \in SUBSET Keys, NEW f \in [D -> Values]
  PROVE  f # NULL
  BY NullAssumption

-----------------------------------------------------------------------------
(* The steps                                                               *)

\* Nothing is running at first, and there is no file.
LEMMA Begins == Init => IInv
<1> SUFFICES ASSUME Init PROVE IInv
  OBVIOUS
<1>1. \A k \in Keys : wish[k] = NULL
  BY DEF Init, NoOptions
<1>2. WishInv
  <2>1. wish \in [Keys -> Values \cup {NULL}]
    BY DEF Init, NoOptions
  <2>2. "version" \in Keys /\ Lasting \subseteq Keys
    BY KeysAre DEF AllKeys, Lasting
  <2> QED  BY <1>1, <2>1, <2>2 DEF WishInv
<1>3. AnswersInv
  <2>1. answers \in [Keys -> Values \cup {NULL}] /\ \A k \in Keys : answers[k] = NULL
    BY DEF Init, NoOptions
  <2> QED  BY <2>1 DEF AnswersInv, Init
<1> QED  BY <1>2, <1>3 DEF Init, IInv, OptionsInv, PointInv, Points, FileInv, SettingsWhole, KeptInv

\* A step that leaves the file alone leaves what is said of it.
LEMMA FileAlone ==
  ASSUME IInv, UNCHANGED <<settings, edited, wish>>
  PROVE  FileInv' /\ SettingsWhole' /\ WishInv'
  BY DEF IInv, FileInv, SettingsWhole, WishInv

\* Nothing is asked of a program that is not running.
LEMMA Exits ==
  ASSUME Exit
  PROVE  OptionsInv' /\ PointInv' /\ KeptInv' /\ AnswersInv'
<1>1. OptionsInv' /\ PointInv' /\ KeptInv'
  BY DEF Exit, OptionsInv, PointInv, Points, KeptInv
<1>2. AnswersInv'
  <2>1. answers' \in [Keys -> Values \cup {NULL}] /\ \A k \in Keys : answers'[k] = NULL
    BY DEF Exit, NoOptions
  <2> QED  BY <2>1 DEF AnswersInv, Exit
<1> QED  BY <1>1, <1>2

\* A step that leaves the dialogue alone, and the point of the start where it was open.
LEMMA NothingAnswered ==
  ASSUME IInv, pc \in {"down", "read", "ask"}, UNCHANGED answers,
         pc' \in {"down", "read", "ask", "url", "login", "open"},
         pc' = "login" => state' # "STARTING_FULL_CONFIG",
         pc' = "open" => state' = "STARTING"
  PROVE  AnswersInv'
<1>1. answers' \in [Keys -> Values \cup {NULL}] /\ \A k \in Keys : answers'[k] = NULL
  BY DEF IInv, AnswersInv
<1> QED  BY <1>1 DEF AnswersInv, Asked

\* After the writing, the program connects or ends.
LEMMA GoesOn ==
  ASSUME IInv, Written, pc # "down", pc # "read",
         \A k \in Lasting \ Asked : wish'[k] # NULL => InForce(k, options[k], wish'[k])
  PROVE  OptionsInv' /\ PointInv' /\ KeptInv' /\ AnswersInv'
<1>1. CASE state = "STARTING"
  <2>1. pc' = "connect" /\ UNCHANGED <<state, options, answers>>
    BY <1>1 DEF Written, talk
  <2>2. OptionsInv' /\ PointInv' /\ KeptInv'
    BY <1>1, <2>1 DEF IInv, OptionsInv, PointInv, Points, KeptInv, Asked
  <2>3. AnswersInv'
    BY <1>1, <2>1 DEF IInv, AnswersInv, Asked, InForce
  <2> QED  BY <2>2, <2>3
<1>2. CASE state # "STARTING"
  BY <1>2, Exits DEF Written
<1> QED  BY <1>1, <1>2

\* Start: the options are the defaults.
LEMMA StartKeeps ==
  ASSUME IInv, Start
  PROVE  IInv'
<1>1. FileInv' /\ SettingsWhole' /\ WishInv'
  BY FileAlone DEF Start, disk
<1>2. PICK id \in DeviceIds, updates \in {"true", "false"} :
        options' = [Defaults(id) EXCEPT !["check_updates"] = updates]
  BY DEF Start
<1>3. \A k \in Keys : options'[k] = IF k = "check_updates" THEN updates ELSE Defaults(id)[k]
  BY <1>2 DEF Defaults
<1>4. /\ options'["server"] = NULL /\ options'["token"] = NULL /\ options'["userid"] = NULL
      /\ options'["mpv_profile"] = NULL
      /\ options'["ssl_verifyhost"] = "true" /\ options'["client"] = "jftui"
      /\ options'["device"] = "hostname" /\ options'["deviceid"] = id
      /\ options'["version"] = "current" /\ options'["try_local_files"] = "no"
      /\ options'["check_updates"] = updates
  BY <1>3, KeysAre DEF AllKeys, Defaults
<1>5. id \in Values /\ {"true", "false", "jftui", "hostname", "current", "no"} \subseteq Values
  BY ValuesHave
<1>6. \A k \in Keys : options'[k] \in Values \cup {NULL}
  BY <1>4, <1>5, KeysAre DEF AllKeys
<1>7. options' \in [Keys -> Values \cup {NULL}]
  BY <1>2, <1>6 DEF Defaults
<1>8. \A k \in Keys \ (Fundamental \cup {"mpv_profile"}) : options'[k] \in Values
  BY <1>4, <1>5, KeysAre DEF AllKeys, Fundamental
<1>9. OptionsInv'
  <2>1. {id, "hostname"} \cap (DOMAIN Cuts \cup {Empty}) = {}
    BY CutsAssumption, DeviceIdsAssumption DEF Empty
  <2>2. \A k \in Arrays : options'[k] \notin DOMAIN Cuts \cup {Empty}
    BY <1>4, <2>1 DEF Arrays
  <2> QED  BY <1>4, <1>7, <1>8, <2>2, NullIsNone DEF OptionsInv
<1>10. PointInv'
  BY <1>4 DEF Start, PointInv, Points, Fundamental
<1>11. AnswersInv'
  BY NothingAnswered DEF Start, talk
<1> QED  BY <1>1, <1>9, <1>10, <1>11 DEF IInv, KeptInv, Start

\* ReadConfig: what the lines say is taken, and with it every wish.
LEMMA ReadConfigKeeps ==
  ASSUME IInv, ReadConfig
  PROVE  IInv'
<1>1. FileInv' /\ SettingsWhole' /\ WishInv'
  BY FileAlone DEF ReadConfig, disk
<1>2. /\ options \in [Keys -> Values \cup {NULL}]
      /\ DOMAIN settings \in SUBSET Keys
      /\ \A k \in DOMAIN settings : Sound(k, settings[k])
      /\ options["ssl_verifyhost"] = "true"
      /\ settings # NULL /\ pc = "read"
  BY DEF IInv, OptionsInv, PointInv, FileInv, ReadConfig
<1>3. PICK id \in DeviceIds :
         options' = [Read(options, settings, id) EXCEPT !["version"] = "current"]
  BY DEF ReadConfig
<1> DEFINE Line(k) == Completed(k, Stored(k, settings[k]), id)
<1>4. \A k \in Keys : options'[k] =
        IF k = "version" THEN "current"
        ELSE IF k \in DOMAIN settings /\ Accepts(k, settings[k]) THEN Line(k) ELSE options[k]
  <2>1. DOMAIN Read(options, settings, id) = Keys
    BY DEF Read
  <2>2. \A k \in Keys : options'[k] =
          IF k = "version" THEN "current" ELSE Read(options, settings, id)[k]
    BY <1>3, <2>1
  <2> QED  BY <2>2, ReadIs
<1>5. DOMAIN options' = Keys /\ options' = [k \in Keys |-> options'[k]]
  BY <1>3 DEF Read
<1>6. \A k \in Keys : k \in DOMAIN settings =>
         /\ Line(k) \in Values
         /\ k \in Arrays => Line(k) \notin DOMAIN Cuts \cup {Empty}
         /\ (k \in Arrays => settings[k] # Empty) => Line(k) = Stored(k, settings[k])
         /\ k \notin Arrays => Line(k) = settings[k]
  BY <1>2, CompletedIs, StoredIs DEF Sound
<1> HIDE DEF Line
<1>7. \A k \in Keys : options'[k] \in Values \/ options'[k] = options[k]
  BY <1>2, <1>4, <1>6, ValuesHave
<1>8. {"server", "token", "userid", "ssl_verifyhost", "try_local_files", "mpv_profile", "version"}
         \cap Arrays = {}
  BY DEF Arrays
<1>9. OptionsInv'
  <2>1. options' \in [Keys -> Values \cup {NULL}]
    BY <1>2, <1>5, <1>7
  <2>2. \A k \in Keys \ (Fundamental \cup {"mpv_profile"}) : options'[k] # NULL
    BY <1>2, <1>7, NullIsNone DEF IInv, OptionsInv
  <2>3. options'["server"] \in Servers \cup {NULL}
    BY <1>2, <1>4, <1>6, <1>8, KeysAre DEF AllKeys, IInv, OptionsInv, FileInv
  <2>4. options'["version"] = "current"
    BY <1>4, KeysAre DEF AllKeys
  <2>5. options'["ssl_verifyhost"] \in {"true", "false"}
    BY <1>2, <1>4, <1>6, <1>8, KeysAre DEF AllKeys, Accepts
  <2>6. options'["try_local_files"] \in {"no", "yes", "force"}
    <3>1. options["try_local_files"] \in {"no", "yes", "force"}
      BY <1>2 DEF IInv, OptionsInv
    <3>2. Accepts("try_local_files", settings["try_local_files"])
            => settings["try_local_files"] \in {"no", "yes", "force"}
      BY DEF Accepts
    <3> QED  BY <1>4, <1>6, <1>8, <3>1, <3>2, KeysAre DEF AllKeys
  <2>7. \A k \in Arrays : options'[k] \notin DOMAIN Cuts \cup {Empty}
    <3>1. \A k \in Arrays : k \in Keys /\ k # "version"
      BY KeysAre DEF Arrays, AllKeys
    <3>2. \A k \in Arrays : options[k] \notin DOMAIN Cuts \cup {Empty}
      BY <1>2 DEF IInv, OptionsInv
    <3> QED  BY <1>4, <1>6, <3>1, <3>2
  <2> QED  BY <2>1, <2>2, <2>3, <2>4, <2>5, <2>6, <2>7 DEF OptionsInv
<1>10. \A k \in Lasting : wish[k] # NULL => InForce(k, options'[k], wish[k])
  <2> SUFFICES ASSUME NEW k \in Lasting, wish[k] # NULL, ~ Verified(k, wish[k])
               PROVE  options'[k] = Stored(k, wish[k])
    BY DEF InForce
  <2>1. /\ k \in Keys /\ k \in DOMAIN settings /\ Sound(k, settings[k]) /\ wish[k] \in Values
        /\ Stored(k, settings[k]) = Stored(k, wish[k])
        /\ k \in Arrays => settings[k] # Empty
    BY <1>2 DEF IInv, WishInv, Lasting, InFile
  <2>2. CASE k = "version"
    <3>1. wish[k] = "current" /\ options'[k] = "current"
      BY <1>4, <2>1, <2>2 DEF IInv, WishInv
    <3> QED  BY <1>8, <2>2, <3>1, StoredIs, <2>1
  <2>3. CASE k # "version" /\ Accepts(k, settings[k])
    BY <1>4, <1>6, <2>1, <2>3
  <2>4. CASE k # "version" /\ ~ Accepts(k, settings[k])
    <3>1. k = "ssl_verifyhost" /\ settings[k] = "true"
      BY <2>1, <2>4 DEF Sound
    <3>2. Stored(k, settings[k]) = "true" /\ Stored(k, wish[k]) = wish[k]
      BY <1>8, <2>1, <3>1 DEF Stored
    <3> QED  BY <2>1, <3>1, <3>2 DEF Verified
  <2> QED  BY <2>2, <2>3, <2>4
<1>11. CASE \A k \in Fundamental : options'[k] # NULL
  <2>1. /\ state' = state
        /\ pc' = CASE state = "STARTING_FULL_CONFIG" -> "url"
                   [] state = "STARTING_LOGIN" -> "login"
                   [] OTHER -> "open"
    BY <1>11 DEF ReadConfig, GoOn
  <2>2. state \in {"STARTING", "STARTING_LOGIN"}
    BY <1>2 DEF IInv, PointInv
  <2>3. \A k \in Fundamental : k \in DOMAIN settings /\ options'[k] = settings[k]
    <3>1. \A k \in Fundamental : options[k] = NULL /\ k \in Keys /\ k # "version"
      BY <1>2, KeysAre DEF IInv, PointInv, Fundamental, AllKeys
    <3>2. \A k \in Fundamental : k \notin Arrays
      BY <1>8 DEF Fundamental
    <3> QED  BY <1>4, <1>11, <1>6, <3>1, <3>2
  <2>4. options'["token"] = options'["userid"] /\ options'["token"][1] = options'["server"]
    <3>1. {"server", "token", "userid"} \subseteq DOMAIN settings
      BY <2>3 DEF Fundamental
    <3>2. settings["token"] = settings["userid"] /\ settings["token"][1] = settings["server"]
      BY <1>2, <3>1 DEF IInv, SettingsWhole, Fundamental
    <3> QED  BY <2>3, <3>2 DEF Fundamental
  <2>5. (state = "STARTING" /\ pc' = "open") \/ (state = "STARTING_LOGIN" /\ pc' = "login")
    BY <2>1, <2>2
  <2>6. PointInv'
    BY <1>11, <2>1, <2>4, <2>5 DEF PointInv, Points, Fundamental
  <2>7. KeptInv'
    BY <1>10, <1>2 DEF KeptInv, ReadConfig, disk
  <2>8. AnswersInv'
    BY <2>1, <2>5, NothingAnswered DEF ReadConfig, talk
  <2> QED  BY <1>1, <1>9, <2>6, <2>7, <2>8 DEF IInv
<1>12. CASE ~ \A k \in Fundamental : options'[k] # NULL
  <2>1. pc' = "ask" /\ state' = state
    BY <1>12 DEF ReadConfig
  <2>2. PointInv'
    BY <2>1 DEF PointInv, Points, IInv
  <2>3. KeptInv'
    BY <1>10, <1>2 DEF KeptInv, ReadConfig, disk
  <2>4. AnswersInv'
    BY <2>1, NothingAnswered DEF ReadConfig, talk
  <2> QED  BY <1>1, <1>9, <2>2, <2>3, <2>4 DEF IInv
<1> QED  BY <1>11, <1>12

\* NoConfig: without a file there is no wish.
LEMMA NoConfigKeeps ==
  ASSUME IInv, NoConfig
  PROVE  IInv'
<1>1. FileInv' /\ SettingsWhole' /\ WishInv'
  BY FileAlone DEF NoConfig, disk
<1>2. OptionsInv' /\ PointInv'
  BY DEF NoConfig, IInv, OptionsInv, PointInv, Points
<1>3. KeptInv'
  BY DEF NoConfig, disk, KeptInv, IInv, WishInv
<1>4. AnswersInv'
  BY NothingAnswered DEF NoConfig, talk
<1> QED  BY <1>1, <1>2, <1>3, <1>4 DEF IInv

\* Agree: all that follows is asked for anew.
LEMMA AgreeKeeps ==
  ASSUME IInv, Agree
  PROVE  IInv'
<1>1. FileInv' /\ SettingsWhole' /\ WishInv'
  BY FileAlone DEF Agree, disk
<1>2. /\ pc = "ask" /\ pc' = "url" /\ state' = "STARTING_FULL_CONFIG"
      /\ UNCHANGED <<options, settings, tmp, wish>>
  BY DEF Agree, GoOn, disk
<1>3. OptionsInv' /\ PointInv'
  BY <1>2 DEF IInv, OptionsInv, PointInv, Points
<1>4. KeptInv'
  <2>1. \A k \in Lasting \ Asked' : k \in Lasting \ Asked
    BY <1>2 DEF Asked, Fundamental
  <2> QED  BY <1>2, <2>1 DEF KeptInv, IInv
<1>5. AnswersInv'
  BY <1>2, NothingAnswered DEF Agree
<1> QED  BY <1>1, <1>3, <1>4, <1>5 DEF IInv

\* AskUrl: the server and the verification of hosts.
LEMMA AskUrlKeeps ==
  ASSUME IInv, AskUrl
  PROVE  IInv'
<1>1. FileInv' /\ SettingsWhole' /\ WishInv'
  BY FileAlone DEF AskUrl, disk
<1>2. PICK s \in Servers, ignore \in BOOLEAN :
        /\ options' = [options EXCEPT !["server"] = s,
                                      !["ssl_verifyhost"] = IF ignore THEN "false" ELSE @]
        /\ answers' = [answers EXCEPT !["server"] = s,
                                      !["ssl_verifyhost"] = IF ignore THEN "false" ELSE "true"]
  BY DEF AskUrl
<1>3. /\ pc = "url" /\ pc' = "login" /\ state = "STARTING_FULL_CONFIG"
      /\ UNCHANGED <<state, settings, tmp, wish>>
      /\ options \in [Keys -> Values \cup {NULL}]
      /\ options["ssl_verifyhost"] \in {"true", "false"}
  BY DEF AskUrl, disk, IInv, OptionsInv, PointInv
<1>4. /\ options'["server"] = s
      /\ options'["ssl_verifyhost"] \in {"true", "false"}
      /\ \A k \in Keys \ {"server", "ssl_verifyhost"} : options'[k] = options[k]
      /\ "server" \in Keys /\ "ssl_verifyhost" \in Keys
      /\ "version" \in Keys /\ "try_local_files" \in Keys
  BY <1>2, <1>3, KeysAre DEF AllKeys
<1>5. s \in Values /\ {"true", "false"} \subseteq Values
  BY ValuesHave
<1>6. OptionsInv'
  <2>1. options' \in [Keys -> Values \cup {NULL}]
    BY <1>2, <1>3, <1>4, <1>5
  <2>2. \A k \in Arrays : k \in Keys \ {"server", "ssl_verifyhost"}
    BY KeysAre DEF Arrays, AllKeys
  <2> QED  BY <1>3, <1>4, <1>5, <2>1, <2>2, NullIsNone DEF IInv, OptionsInv
<1>7. PointInv'
  BY <1>3, <1>4, <1>5, NullIsNone DEF PointInv, Points
<1>8. KeptInv'
  BY <1>3, <1>4 DEF IInv, KeptInv, Asked, Fundamental, Lasting
<1>9. AnswersInv'
  <2>1. /\ answers \in [Keys -> Values \cup {NULL}]
        /\ \A k \in Keys : answers[k] = NULL
    BY <1>3 DEF IInv, AnswersInv
  <2>2. /\ answers'["server"] = s
        /\ answers'["ssl_verifyhost"] = IF ignore THEN "false" ELSE "true"
        /\ \A k \in Keys \ {"server", "ssl_verifyhost"} : answers'[k] = NULL
        /\ answers' \in [Keys -> Values \cup {NULL}]
    BY <1>2, <1>4, <1>5, <2>1
  <2>3. InForce("server", options'["server"], answers'["server"])
    BY <1>4, <2>2 DEF InForce, Stored, Arrays
  <2>4. InForce("ssl_verifyhost", options'["ssl_verifyhost"], answers'["ssl_verifyhost"])
    <3>1. ignore => options'["ssl_verifyhost"] = "false"
      BY <1>2, <1>3, <1>4
    <3> QED  BY <2>2, <3>1 DEF InForce, Verified, Stored, Arrays
  <2>5. {"server", "ssl_verifyhost"} \subseteq Asked'
    BY <1>3 DEF Asked, Fundamental
  <2> QED  BY <1>3, <1>5, <2>2, <2>3, <2>4, <2>5, NullIsNone DEF AnswersInv
<1> QED  BY <1>1, <1>6, <1>7, <1>8, <1>9 DEF IInv

\* Login: the user and the token are of the server asked.
LEMMA LoginKeeps ==
  ASSUME IInv, Login
  PROVE  IInv'
<1>1. FileInv' /\ SettingsWhole' /\ WishInv'
  BY FileAlone DEF Login, disk
<1>2. PICK u \in Users :
        /\ options' = [options EXCEPT !["userid"] = <<options["server"], u>>,
                                      !["token"] = <<options["server"], u>>]
        /\ answers' = [answers EXCEPT !["userid"] = <<options["server"], u>>,
                                      !["token"] = <<options["server"], u>>]
  BY DEF Login
<1>3. /\ pc = "login" /\ pc' = "open" /\ state \in {"STARTING_LOGIN", "STARTING_FULL_CONFIG"}
      /\ UNCHANGED <<state, settings, tmp, wish>>
      /\ options \in [Keys -> Values \cup {NULL}]
      /\ options["server"] \in Servers
  BY DEF Login, disk, IInv, OptionsInv, PointInv
<1> DEFINE login == <<options["server"], u>>
<1>4. /\ login \in Servers \X Users /\ login[1] = options["server"]
  BY <1>3
<1> HIDE DEF login
<1>5. /\ options'["userid"] = login /\ options'["token"] = login
      /\ \A k \in Keys \ {"userid", "token"} : options'[k] = options[k]
      /\ \A k \in {"server", "version", "try_local_files", "ssl_verifyhost"} : k \in Keys
  BY <1>2, <1>3, KeysAre DEF AllKeys, login
<1>6. login \in Values /\ login # NULL /\ options["server"] # NULL
  BY <1>3, <1>4, ValuesHave, NullIsNone
<1>7. OptionsInv'
  <2>1. options' \in [Keys -> Values \cup {NULL}]
    BY <1>2, <1>3, <1>5, <1>6
  <2>2. \A k \in Arrays : k \in Keys \ {"userid", "token"}
    BY KeysAre DEF Arrays, AllKeys
  <2> QED  BY <1>3, <1>5, <1>6, <2>1, <2>2 DEF IInv, OptionsInv
<1>8. PointInv'
  BY <1>3, <1>4, <1>5, <1>6 DEF PointInv, Points, Fundamental
<1>9. KeptInv'
  BY <1>3, <1>5 DEF IInv, KeptInv, Asked, Fundamental, Lasting
<1>10. AnswersInv'
  <2>1. /\ answers \in [Keys -> Values \cup {NULL}]
        /\ \A k \in Keys : answers[k] # NULL => k \in Asked /\ InForce(k, options[k], answers[k])
        /\ state = "STARTING_FULL_CONFIG" =>
             answers["server"] # NULL /\ answers["ssl_verifyhost"] # NULL
    BY <1>3 DEF IInv, AnswersInv
  <2>2. /\ answers'["userid"] = login /\ answers'["token"] = login
        /\ \A k \in Keys \ {"userid", "token"} : answers'[k] = answers[k]
        /\ answers' \in [Keys -> Values \cup {NULL}]
        /\ {"userid", "token"} \subseteq Keys
    BY <1>2, <1>6, <2>1, KeysAre DEF login, AllKeys
  <2>3. \A k \in {"userid", "token"} : InForce(k, options'[k], answers'[k])
    BY <1>5, <2>2 DEF InForce, Stored, Arrays
  <2>4. Asked' = Asked /\ {"userid", "token"} \subseteq Asked
    BY <1>3 DEF Asked, Fundamental
  <2>5. \A k \in Keys : answers'[k] # NULL => k \in Asked' /\ InForce(k, options'[k], answers'[k])
    BY <1>5, <2>1, <2>2, <2>3, <2>4
  <2>6. \A k \in Asked' : answers'[k] # NULL
    BY <1>3, <1>5, <1>6, <2>1, <2>2, <2>4 DEF Asked, Fundamental
  <2> QED  BY <1>3, <2>2, <2>5, <2>6 DEF AnswersInv
<1> QED  BY <1>1, <1>7, <1>8, <1>9, <1>10 DEF IInv

\* The steps that end the program.
LEMMA EndsKeep ==
  ASSUME IInv, GiveUp \/ LoginFails \/ Stop \/ Crash
  PROVE  IInv'
<1>1. Exit /\ UNCHANGED disk
  BY DEF GiveUp, LoginFails, Stop, Crash
<1> QED  BY <1>1, Exits, FileAlone DEF disk, IInv

\* Connect: nothing but the point changes.
LEMMA ConnectKeeps ==
  ASSUME IInv, Connect
  PROVE  IInv'
<1>1. FileInv' /\ SettingsWhole' /\ WishInv'
  BY FileAlone DEF Connect, disk
<1>2. OptionsInv' /\ PointInv' /\ KeptInv'
  BY DEF Connect, talk, disk, IInv, OptionsInv, PointInv, Points, KeptInv, Asked
<1>3. AnswersInv'
  <2>1. UNCHANGED <<state, options, answers>> /\ pc' = "running"
    BY DEF Connect, talk
  <2> QED  BY <2>1 DEF IInv, AnswersInv, Asked, InForce
<1> QED  BY <1>1, <1>2, <1>3 DEF IInv

\* Open and CloseFile: only the other file is written.
LEMMA WritingKeeps ==
  ASSUME IInv, Open \/ CloseFile
  PROVE  IInv'
<1>1. FileInv' /\ SettingsWhole' /\ WishInv' /\ UNCHANGED <<settings, edited, wish>>
  BY FileAlone DEF Open, CloseFile
<1>2. CASE Written
  <2>1. pc \in {"open", "close"}
    BY DEF Open, CloseFile
  <2>2. \A k \in Lasting \ Asked : wish'[k] # NULL => InForce(k, options[k], wish'[k])
    BY <1>1, <2>1 DEF IInv, KeptInv
  <2>3. CASE state = "STARTING"
    BY <1>1, <1>2, <2>1, <2>2, <2>3, GoesOn DEF IInv, Asked
  <2>4. CASE state # "STARTING"
    BY <1>1, <1>2, <2>4, Exits DEF Written, IInv
  <2> QED  BY <2>3, <2>4
<1>3. CASE ~ Written
  <2>1. /\ UNCHANGED <<state, options, answers>>
        /\ (pc = "open" /\ pc' = "close") \/ (pc = "close" /\ pc' = "rename" /\ tmp' = Lines(options))
    BY <1>3 DEF Open, CloseFile, talk
  <2>2. OptionsInv' /\ KeptInv'
    BY <1>1, <2>1 DEF IInv, OptionsInv, KeptInv, Asked
  <2>3. PointInv'
    BY <2>1 DEF IInv, PointInv, Points, Lines
  <2>4. AnswersInv'
    BY <2>1 DEF IInv, AnswersInv, Asked, InForce
  <2> QED  BY <1>1, <2>2, <2>3, <2>4 DEF IInv
<1> QED  BY <1>2, <1>3

\* Rename: the whole file takes the place of the old one.
LEMMA RenameKeeps ==
  ASSUME IInv, Rename
  PROVE  IInv'
<1>1. pc = "rename" /\ tmp = Lines(options) /\ Written
  BY DEF Rename, IInv, PointInv
<1>2. CASE UNCHANGED <<settings, tmp, edited, wish>>
  <2>1. FileInv' /\ SettingsWhole' /\ WishInv'
    BY <1>2, FileAlone
  <2>2. \A k \in Lasting \ Asked : wish'[k] # NULL => InForce(k, options[k], wish'[k])
    BY <1>1, <1>2 DEF IInv, KeptInv
  <2>3. OptionsInv' /\ PointInv' /\ KeptInv' /\ AnswersInv'
    BY <1>1, <2>2, GoesOn
  <2> QED  BY <2>1, <2>3 DEF IInv
<1>3. CASE settings' = tmp /\ tmp' = NULL /\ edited' = FALSE /\ wish' = WishAfter
  <2>1. /\ DOMAIN settings' = {k \in Lasting : options[k] # NULL}
        /\ \A k \in DOMAIN settings' : settings'[k] = options[k]
        /\ settings' = [k \in DOMAIN settings' |-> settings'[k]]
    BY <1>1, <1>3, LinesHave
  <2>2. /\ options \in [Keys -> Values \cup {NULL}]
        /\ \A k \in Keys \ (Fundamental \cup {"mpv_profile"}) : options[k] # NULL
        /\ options["server"] \in Servers \cup {NULL}
        /\ options["version"] = "current"
        /\ options["ssl_verifyhost"] \in {"true", "false"}
        /\ options["try_local_files"] \in {"no", "yes", "force"}
        /\ \A k \in Fundamental : options[k] # NULL
        /\ options["token"] = options["userid"] /\ options["token"][1] = options["server"]
    BY <1>1 DEF IInv, OptionsInv, PointInv
  <2>3. Lasting \subseteq Keys /\ "check_updates" \notin Lasting /\ Lasting = ToSet(WriteOrder)
    BY WrittenKeys, KeysAre DEF Lasting
  <2>4. settings' # NULL
    <3>1. DOMAIN settings' \in SUBSET Keys
      BY <2>1, <2>3
    <3>2. settings' \in [DOMAIN settings' -> Values]
      BY <2>1, <2>2, <2>3
    <3> QED  BY <3>1, <3>2, FilesAre
  <2>5. FileInv'
    <3>1. \A k \in DOMAIN settings' : Sound(k, settings'[k])
      BY <2>1, <2>2, <2>3 DEF Sound, Accepts
    <3> QED  BY <2>1, <2>2, <2>3, <3>1 DEF FileInv
  <2>6. SettingsWhole'
    <3>1. ToSet(WriteOrder) \ {"mpv_profile"} \subseteq DOMAIN settings'
      BY <2>1, <2>2, <2>3
    <3> QED  BY <2>1, <2>2, <3>1 DEF SettingsWhole, Fundamental
  <2>7. \A k \in Keys : wish'[k] = IF answers[k] # NULL THEN answers[k]
                                    ELSE IF wish[k] = NULL /\ k \in DOMAIN tmp THEN tmp[k] ELSE wish[k]
    BY <1>3 DEF WishAfter
  <2>8. \A k \in Lasting : options[k] # NULL => Stored(k, options[k]) = options[k]
    BY <1>1 DEF IInv, OptionsInv, Stored
  <2>9. \A k \in Asked : options[k] # NULL
    BY <2>2, KeysAre DEF Asked, Fundamental, AllKeys
  <2>10. \A k \in Lasting : wish'[k] # NULL =>
          k \in DOMAIN settings' /\ InForce(k, options[k], wish'[k])
    <3> SUFFICES ASSUME NEW k \in Lasting, wish'[k] # NULL
                 PROVE  options[k] # NULL /\ InForce(k, options[k], wish'[k])
      BY <2>1
    <3>1. CASE answers[k] # NULL
      <4>1. k \in Asked /\ InForce(k, options[k], answers[k])
        BY <2>3, <3>1 DEF IInv, AnswersInv
      <4> QED  BY <2>3, <2>7, <2>9, <3>1, <4>1
    <3>2. CASE answers[k] = NULL /\ wish[k] = NULL
      <4>1. k \in DOMAIN tmp /\ wish'[k] = tmp[k]
        BY <2>3, <2>7, <3>2
      <4>2. options[k] # NULL /\ wish'[k] = options[k]
        BY <1>3, <2>1, <4>1
      <4> QED  BY <2>8, <4>2 DEF InForce
    <3>3. CASE answers[k] = NULL /\ wish[k] # NULL
      <4>1. k \notin Asked
        BY <1>1, <3>3 DEF IInv, AnswersInv
      <4>2. wish'[k] = wish[k] /\ InForce(k, options[k], wish[k])
        BY <1>1, <2>3, <2>7, <3>3, <4>1 DEF IInv, KeptInv
      <4>3. wish[k] \in Values
        BY <2>3, <3>3 DEF IInv, WishInv
      <4>4. options[k] # NULL
        <5>1. CASE Verified(k, wish[k])
          BY <2>2, <5>1, KeysAre DEF Verified, Fundamental, AllKeys
        <5>2. CASE ~ Verified(k, wish[k])
          BY <2>3, <4>2, <4>3, <5>2, StoredIs, NullIsNone DEF InForce
        <5> QED  BY <5>1, <5>2
      <4> QED  BY <4>2, <4>4
    <3> QED  BY <3>1, <3>2, <3>3
  <2>11. \A k \in Lasting : wish'[k] # NULL =>
           k \in DOMAIN settings' /\ InFile(k, settings'[k], wish'[k])
    <3>1. \A k \in Arrays : options[k] # Empty
      BY <1>1 DEF IInv, OptionsInv
    <3> QED  BY <2>1, <2>10, <2>8, <3>1 DEF InForce, InFile
  <2>12. WishInv'
    <3>1. "version" \in Lasting /\ "version" \notin Asked
      BY KeysAre DEF Lasting, AllKeys, Asked, Fundamental
    <3>2. \A k \in Keys : wish'[k] \in Values \cup {NULL}
      <4> SUFFICES ASSUME NEW k \in Keys PROVE wish'[k] \in Values \cup {NULL}
        OBVIOUS
      <4>1. wish'[k] = answers[k] \/ wish'[k] = wish[k] \/ (k \in DOMAIN tmp /\ wish'[k] = tmp[k])
        BY <2>7
      <4>2. /\ answers[k] \in Values \cup {NULL} /\ wish[k] \in Values \cup {NULL}
            /\ options[k] \in Values \cup {NULL}
        BY <2>2 DEF IInv, WishInv, AnswersInv
      <4> QED  BY <1>3, <2>1, <4>1, <4>2
    <3>3. wish' \in [Keys -> Values \cup {NULL}]
      BY <1>3, <3>2 DEF WishAfter
    <3>4. wish'["version"] \in {NULL, "current"}
      <4>1. answers["version"] = NULL /\ wish["version"] \in {NULL, "current"}
        BY <2>3, <3>1 DEF IInv, AnswersInv, WishInv
      <4> QED  BY <1>3, <2>1, <2>2, <2>3, <2>7, <3>1, <4>1
    <3> QED  BY <2>1, <2>4, <2>11, <3>3, <3>4 DEF WishInv
  <2>13. OptionsInv' /\ PointInv' /\ KeptInv' /\ AnswersInv'
    <3>1. \A k \in Lasting \ Asked : wish'[k] # NULL => InForce(k, options[k], wish'[k])
      BY <2>10
    <3> QED  BY <1>1, <3>1, GoesOn
  <2> QED  BY <2>5, <2>6, <2>12, <2>13 DEF IInv
<1> QED  BY <1>2, <1>3 DEF Rename

\* Edit: a line that is changed or removed is a wish that is changed or dropped.
LEMMA EditKeeps ==
  ASSUME IInv, Edit
  PROVE  IInv'
<1>1. pc = "down" /\ pc' = "down" /\ state' = state /\ settings # NULL /\ edited'
  BY DEF Edit
<1>2. OptionsInv' /\ PointInv' /\ KeptInv' /\ AnswersInv'
  <2>1. OptionsInv' /\ PointInv' /\ KeptInv'
    BY <1>1 DEF IInv, OptionsInv, PointInv, Points, KeptInv
  <2>2. AnswersInv'
    BY <1>1, NothingAnswered DEF Edit, talk
  <2> QED  BY <2>1, <2>2
<1>3. /\ DOMAIN settings \in SUBSET Keys
      /\ \A k \in DOMAIN settings : Sound(k, settings[k])
      /\ "server" \in DOMAIN settings => settings["server"] \in Servers
      /\ wish \in [Keys -> Values \cup {NULL}]
      /\ wish["version"] \in {NULL, "current"}
      /\ \A k \in Lasting : wish[k] # NULL =>
           k \in DOMAIN settings /\ InFile(k, settings[k], wish[k])
      /\ {"token", "userid"} \subseteq DOMAIN settings => settings["token"] = settings["userid"]
      /\ Fundamental \subseteq DOMAIN settings => settings["token"][1] = settings["server"]
  BY <1>1 DEF IInv, FileInv, WishInv, SettingsWhole
<1>4. "version" \in Keys /\ Lasting \subseteq Keys /\ Fundamental = {"server", "token", "userid"}
  BY KeysAre DEF AllKeys, Lasting, Fundamental
<1>5. ASSUME NEW k \in DOMAIN Edits, NEW v \in Edits[k],
             settings' = [l \in DOMAIN settings \cup {k} |-> IF l = k THEN v ELSE settings[l]],
             wish' = [wish EXCEPT ![k] = IF k \in Arrays /\ v = Empty THEN NULL ELSE v]
      PROVE  FileInv' /\ SettingsWhole' /\ WishInv'
  <2>1. k \in Keys /\ k \notin Fundamental /\ k # "version" /\ Sound(k, v) /\ v \in Values
    BY EditsAssumption, AcceptedAssumption, ValuesHave DEF Sound
  <2>2. /\ DOMAIN settings' = DOMAIN settings \cup {k} /\ settings'[k] = v
        /\ \A l \in DOMAIN settings \ {k} : settings'[l] = settings[l]
        /\ settings' = [l \in DOMAIN settings' |-> settings'[l]]
    BY <1>5
  <2>3. /\ wish'[k] = IF k \in Arrays /\ v = Empty THEN NULL ELSE v
        /\ \A l \in Keys \ {k} : wish'[l] = wish[l]
    BY <1>3, <1>5, <2>1
  <2>4. \A l \in Lasting : wish'[l] # NULL =>
          l \in DOMAIN settings' /\ InFile(l, settings'[l], wish'[l])
    <3> SUFFICES ASSUME NEW l \in Lasting, wish'[l] # NULL
                 PROVE  l \in DOMAIN settings' /\ InFile(l, settings'[l], wish'[l])
      OBVIOUS
    <3>1. CASE l = k
      BY <2>2, <2>3, <3>1 DEF InFile
    <3>2. CASE l # k
      BY <1>3, <1>4, <2>2, <2>3, <3>2
    <3> QED  BY <3>1, <3>2
  <2>5. settings' # NULL
    <3>1. settings' \in [DOMAIN settings' -> Values] /\ DOMAIN settings' \in SUBSET Keys
      BY <1>3, <2>1, <2>2 DEF Sound
    <3> QED  BY <3>1, FilesAre
  <2>6. FileInv'
    BY <1>3, <1>4, <2>1, <2>2 DEF FileInv
  <2>7. SettingsWhole'
    BY <1>1, <1>3, <1>4, <2>1, <2>2 DEF SettingsWhole
  <2>8. wish' \in [Keys -> Values \cup {NULL}]
    BY <1>3, <1>5, <2>1
  <2>9. WishInv'
    BY <1>3, <1>4, <2>1, <2>3, <2>5, <2>8, <2>4 DEF WishInv
  <2> QED  BY <2>6, <2>7, <2>9
<1>6. ASSUME NEW k \in Removals \cap DOMAIN settings,
             settings' = [l \in DOMAIN settings \ {k} |-> settings[l]],
             wish' = [wish EXCEPT ![k] = NULL]
      PROVE  FileInv' /\ SettingsWhole' /\ WishInv'
  <2>1. k \in Keys
    BY RemovalsAssumption
  <2>2. /\ DOMAIN settings' = DOMAIN settings \ {k}
        /\ \A l \in DOMAIN settings \ {k} : settings'[l] = settings[l]
        /\ settings' = [l \in DOMAIN settings' |-> settings'[l]]
    BY <1>6
  <2>3. wish'[k] = NULL /\ \A l \in Keys \ {k} : wish'[l] = wish[l]
    BY <1>3, <1>6, <2>1
  <2>4. settings' # NULL
    <3>1. settings' \in [DOMAIN settings' -> Values] /\ DOMAIN settings' \in SUBSET Keys
      BY <1>3, <2>2 DEF Sound
    <3> QED  BY <3>1, FilesAre
  <2>5. FileInv'
    BY <1>3, <2>2 DEF FileInv
  <2>6. SettingsWhole'
    BY <1>1, <1>3, <1>4, <2>2 DEF SettingsWhole
  <2>7. wish' \in [Keys -> Values \cup {NULL}]
    BY <1>3, <1>6
  <2>8. WishInv'
    BY <1>3, <1>4, <2>1, <2>2, <2>3, <2>4, <2>7 DEF WishInv
  <2> QED  BY <2>5, <2>6, <2>8
<1>7. FileInv' /\ SettingsWhole' /\ WishInv'
  BY <1>5, <1>6 DEF Edit
<1> QED  BY <1>2, <1>7 DEF IInv

\* Every step keeps the invariant.
LEMMA StepKeeps == IInv /\ [Next]_vars => IInv'
<1> SUFFICES ASSUME IInv, [Next]_vars PROVE IInv'
  OBVIOUS
<1>1. CASE UNCHANGED vars
  BY <1>1 DEF vars, IInv, OptionsInv, PointInv, FileInv, SettingsWhole, WishInv, KeptInv, AnswersInv,
              Asked, Lines
<1>2. CASE Next
  BY <1>2, StartKeeps, ReadConfigKeeps, NoConfigKeeps, EndsKeep, AgreeKeeps, AskUrlKeeps, LoginKeeps,
     ConnectKeeps, WritingKeeps, RenameKeeps, EditKeeps DEF Next
<1> QED  BY <1>1, <1>2

\* Hence it always holds.
LEMMA Inductive == Spec => []IInv
  BY Begins, StepKeeps, PTL DEF Spec

-----------------------------------------------------------------------------
\* Whatever runs are killed or fail to write, the settings file is a whole one and of one
\* login: SettingsWhole, of jf_config_write and the login in main.
THEOREM FileWhole == Spec => []SettingsWhole
<1>1. IInv => SettingsWhole
  BY DEF IInv
<1> QED  BY <1>1, Inductive, PTL

\* No series of starts, logins, edits and crashes loses a choice of the user's, whether
\* answered in a dialogue or written by hand, or gives it to another option, beyond what is
\* cut from it to fit and but for host names that are to be verified again: WishesInForce,
\* of jf_config_read, jf_config_write and the dialogues.
THEOREM WishesKept == Spec => []WishesInForce
<1>1. IInv => WishesInForce
  <2> SUFFICES ASSUME IInv, pc \in {"connect", "running"}, NEW k \in Lasting, wish[k] # NULL,
                      <<k, wish[k]>> # <<"ssl_verifyhost", "true">>
               PROVE  options[k] = Stored(k, wish[k])
    BY DEF WishesInForce, Lasting
  <2>1. Asked = {}
    BY DEF IInv, PointInv, Asked
  <2> QED  BY <2>1 DEF IInv, KeptInv, InForce, Verified
<1> QED  BY <1>1, Inductive, PTL
=============================================================================
