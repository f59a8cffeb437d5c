------------------------------- MODULE Settings -------------------------------
(***************************************************************************)
(* The settings file and what start-up does with it (config.c, and main.c  *)
(* up to its loop): options from defaults, command line and file, the      *)
(* dialogue with the user and the login, and the write through a temporary *)
(* file, over many runs of the program, of which each may be killed at any *)
(* step, and with a user who edits the file between two of them.  A file   *)
(* is a function from the keys of its lines to their values.               *)
(***************************************************************************)
EXTENDS Integers, FiniteSets, Sequences, SequencesExt

CONSTANTS
    Servers, Users,     \* URLs the user may give, and who may log in there
    DeviceIds,          \* what jf_generate_random_id may return
    Edits,              \* per key: values the user may write into the file
    Cuts,               \* what of a value too long for its array fits in it
    Removals,           \* keys whose lines the user may remove
    MaxEdits,           \* bound: edits of the file by hand
    NULL

Fundamental == {"server", "token", "userid"}
\* The keys jf_config_write writes, in order; then the one that it does not.
WriteOrder == <<"server", "token", "userid", "ssl_verifyhost", "client", "device", "deviceid",
                "version", "mpv_profile", "try_local_files">>
LineOrder == Append(WriteOrder, "check_updates")
Keys == ToSet(LineOrder)
\* The options that are arrays in g_options; an empty one has no value.
Arrays == {"device", "deviceid"}
Empty == ""

ASSUME EditsAssumption == DOMAIN Edits \subseteq Keys \ (Fundamental \cup {"version"})

\* What an option may hold; a token and a user id are named by the login they are of.
Values ==
    Servers \cup (Servers \X Users) \cup DeviceIds
    \cup (UNION {Edits[k] : k \in DOMAIN Edits}) \cup {Cuts[v] : v \in DOMAIN Cuts}
    \cup {"true", "false", "no", "yes", "force", "jftui", "hostname", "current"}

\* NULL is no value and no file.
ASSUME NullAssumption == NULL \notin Values /\ \A D \in SUBSET Keys : NULL \notin [D -> Values]
ASSUME RemovalsAssumption == Removals \subseteq Keys
ASSUME MaxEditsAssumption == MaxEdits \in Nat
\* A device id that is generated fits, and so does the name of the host; a value cut once is
\* not cut again.
ASSUME DeviceIdsAssumption == DeviceIds # {} /\ Empty \notin DeviceIds
ASSUME CutsAssumption ==
    /\ DOMAIN Cuts \cap (DeviceIds \cup {"hostname", Empty}) = {}
    /\ \A v \in DOMAIN Cuts : Cuts[v] \notin DOMAIN Cuts \cup {Empty}

VARIABLES
    pc,             \* where the program is in its start; "down" if it is not running
    state,          \* g_state.state
    options,        \* g_options, NULL for a pointer that is NULL
    freed,          \* options whose text is freed and whose pointer is not NULL
    settings,       \* the file settings, NULL if there is none
    tmp,            \* the file settings.tmp
    answers,        \* history: what the user has answered in this start, by the keys it is for
    edits,          \* edits by hand so far
    edited,         \* the settings file is not as a run of the program left it
    wish            \* history: the values that the user expects to be in force

vars == <<pc, state, options, freed, answers, settings, tmp, edits, edited, wish>>
talk == <<freed, answers>>
disk == <<settings, tmp, edits, edited, wish>>

\* jf_options_init, jf_options_complete_with_defaults
Defaults(id) ==
    [k \in Keys |-> CASE k \in {"ssl_verifyhost", "check_updates"} -> "true"
                      [] k = "client" -> "jftui"
                      [] k = "device" -> "hostname"
                      [] k = "deviceid" -> id
                      [] k = "version" -> "current"
                      [] k = "try_local_files" -> "no"
                      [] OTHER -> NULL]

NoOptions == [k \in Keys |-> NULL]

Init ==
    /\ pc = "down" /\ state = "STARTING"
    /\ options = NoOptions /\ freed = {} /\ answers = NoOptions
    /\ settings = NULL /\ tmp = NULL
    /\ edits = 0 /\ edited = FALSE
    /\ wish = NoOptions

-----------------------------------------------------------------------------
(* jf_config_read                                                          *)

\* Mutant: "device" is tried before the option it is a prefix of.
TestOrderDevice ==
    <<"server", "token", "userid", "ssl_verifyhost", "client", "device", "deviceid",
      "version", "mpv_profile", "check_updates", "try_local_files">>

\* The order in which a line is compared with the options.
TestOrder ==
    <<"server", "token", "userid", "ssl_verifyhost", "client", "deviceid", "device",
      "version", "mpv_profile", "check_updates", "try_local_files">>

\* JF_CONFIG_KEY_IS compares as many bytes as the option's name has.
KeyIs(key, option) == key = option \/ <<option, key>> = <<"device", "deviceid">>

\* The first option that matches has the line.
OptionOf ==
    [key \in Keys |-> TestOrder[Min({n \in DOMAIN TestOrder : KeyIs(key, TestOrder[n])})]]

\* JF_CONFIG_FILL_VALUE_BOOL and jf_strong_bool_parse leave the option alone on a value
\* that means nothing to them; a Boolean is only ever set to false.
Accepts(option, value) ==
    CASE option \in {"ssl_verifyhost", "check_updates"} -> value = "false"
      [] option = "try_local_files" -> value \in {"no", "yes", "force"}
      [] OTHER -> TRUE

\* The user writes what means something.
ASSUME AcceptedAssumption ==
    \A k \in DOMAIN Edits : \A v \in Edits[k] :
        Accepts(k, v) \/ (k = "ssl_verifyhost" /\ v = "true")

\* JF_CONFIG_FILL_VALUE_ARRAY cuts what it is given to the size of its array.
Stored(option, value) == IF option \in Arrays /\ value \in DOMAIN Cuts THEN Cuts[value] ELSE value

\* jf_options_complete_with_defaults, on an option that was set: only an array can be empty.
Completed(option, value, id) == IF option \in Arrays /\ value = Empty THEN Defaults(id)[option] ELSE value

\* The options after the lines of a file, of which the last one for an option counts.
Read(o, file, id) ==
    LET LinesOf(k) == {n \in DOMAIN LineOrder :
                         /\ LineOrder[n] \in DOMAIN file /\ OptionOf[LineOrder[n]] = k
                         /\ Accepts(k, file[LineOrder[n]])}
    IN  [k \in Keys |-> IF LinesOf(k) = {} THEN o[k]
                        ELSE Completed(k, Stored(k, file[LineOrder[Max(LinesOf(k))]]), id)]

\* jf_config_write
Lines(o) == [k \in {l \in ToSet(WriteOrder) : o[l] # NULL} |-> o[k]]

-----------------------------------------------------------------------------
(* The start of the program                                                *)

\* jf_exit
Exit ==
    /\ pc' = "down" /\ state' = "STARTING" /\ options' = NoOptions
    /\ freed' = {} /\ answers' = NoOptions

\* Options, command line, caches.
Start ==
    /\ pc = "down"
    /\ \E id \in DeviceIds, updates \in {"true", "false"} :
         options' = [Defaults(id) EXCEPT !["check_updates"] = updates]
    /\ state' \in {"STARTING", "STARTING_LOGIN"}
    /\ pc' = "read"
    /\ UNCHANGED <<talk, disk>>

\* Where the start goes on, past the check for updates, which it does not wait for.
GoOn(s) ==
    /\ state' = s
    /\ pc' = CASE s = "STARTING_FULL_CONFIG" -> "url"
               [] s = "STARTING_LOGIN" -> "login"
               [] OTHER -> "open"

ReadConfig ==
    /\ pc = "read" /\ settings # NULL
    /\ \E id \in DeviceIds : options' = [Read(options, settings, id) EXCEPT !["version"] = "current"]
    /\ IF \A k \in Fundamental : options'[k] # NULL THEN GoOn(state)
       ELSE pc' = "ask" /\ UNCHANGED state
    /\ UNCHANGED <<talk, disk>>

NoConfig ==
    /\ pc = "read" /\ settings = NULL
    /\ pc' = "ask"
    /\ UNCHANGED <<state, options, talk, disk>>

\* The file is there and cannot be accessed; or nothing of what follows is wanted.
GiveUp ==
    /\ pc \in {"read", "ask"}
    /\ Exit
    /\ UNCHANGED disk

\* The user agrees to configure jftui: what there is of the fundamental fields is freed.
Agree ==
    /\ pc = "ask"
    /\ freed' = {k \in Fundamental : options[k] # NULL}
    /\ GoOn("STARTING_FULL_CONFIG")
    /\ UNCHANGED <<options, answers, disk>>

\* jf_config_ask_user, once the URL is well formed, and whether host names are to be
\* ignored: the answer no leaves the option as it is.
AskUrl ==
    /\ pc = "url"
    /\ \E s \in Servers, ignore \in BOOLEAN :
         /\ options' = [options EXCEPT !["server"] = s, !["ssl_verifyhost"] = IF ignore THEN "false" ELSE @]
         /\ answers' = [answers EXCEPT !["server"] = s,
                                       !["ssl_verifyhost"] = IF ignore THEN "false" ELSE "true"]
    /\ freed' = freed \ {"server"}
    /\ pc' = "login"
    /\ UNCHANGED <<state, disk>>

\* jf_config_ask_user_login and jf_json_parse_login_response: what is freed twice
\* corrupts the heap, which LoginFails or Crash may stand for as well.
Login ==
    /\ pc = "login"
    /\ \E u \in Users :
         LET login == <<options["server"], u>>
         IN  /\ options' = [options EXCEPT !["userid"] = login, !["token"] = login]
             /\ answers' = [answers EXCEPT !["userid"] = login, !["token"] = login]
    /\ freed' = {}
    /\ pc' = "open"
    /\ UNCHANGED <<state, disk>>

\* Refused and not tried again, or no answer, or one with fields missing.
LoginFails ==
    /\ pc = "login"
    /\ Exit
    /\ UNCHANGED disk

Connect ==
    /\ pc = "connect"
    /\ pc' = "running"
    /\ UNCHANGED <<state, options, talk, disk>>

\* The server is not reached or refuses; or the user quits.
Stop ==
    /\ pc \in {"connect", "running"}
    /\ Exit
    /\ UNCHANGED disk

-----------------------------------------------------------------------------
(* jf_config_write, and what main does after it                            *)

\* After a dialogue the program ends in any case; else a failure is not fatal.
Written ==
    IF state = "STARTING" THEN pc' = "connect" /\ UNCHANGED <<state, options, talk>> ELSE Exit

\* Mutant: the settings file itself is opened.
OpenInPlace ==
    /\ pc = "open"
    /\ \/ pc' = "close" /\ settings' = <<>> /\ UNCHANGED <<state, options, talk>>
       \/ Written /\ UNCHANGED settings
    /\ UNCHANGED <<tmp, edits, edited, wish>>

\* fopen truncates what a run that was killed has left.
Open ==
    /\ pc = "open"
    /\ \/ pc' = "close" /\ tmp' = <<>> /\ UNCHANGED <<state, options, talk>>
       \/ Written /\ UNCHANGED tmp
    /\ UNCHANGED <<settings, edits, edited, wish>>

\* The lines are buffered until fclose, which may get only some of them to the disk.
CloseFile ==
    /\ pc = "close"
    /\ \/ pc' = "rename" /\ tmp' = Lines(options) /\ UNCHANGED <<state, options, talk>>
       \/ /\ \E n \in 0 .. Len(WriteOrder) - 1 :
               tmp' = [k \in ToSet(SubSeq(WriteOrder, 1, n)) \cap DOMAIN Lines(options) |-> options[k]]
          /\ Written
    /\ UNCHANGED <<settings, edits, edited, wish>>

\* The user wishes what the dialogue was answered, once it is saved; what the user has said
\* nothing of is to stay as it is written first.
WishAfter ==
    [k \in Keys |-> IF answers[k] # NULL THEN answers[k]
                    ELSE IF wish[k] = NULL /\ k \in DOMAIN tmp THEN tmp[k] ELSE wish[k]]

Rename ==
    /\ pc = "rename"
    /\ \/ /\ settings' = tmp /\ tmp' = NULL /\ edited' = FALSE
          /\ wish' = WishAfter
       \/ UNCHANGED <<settings, tmp, edited, wish>>
    /\ Written
    /\ UNCHANGED edits

-----------------------------------------------------------------------------
(* What happens to the program                                             *)

\* It is killed; the files stay as they are.
Crash ==
    /\ pc # "down"
    /\ Exit
    /\ UNCHANGED disk

\* The user edits the file, while the program is not running; to empty an array is to wish
\* nothing of it.
Edit ==
    /\ pc = "down" /\ settings # NULL
    /\ edits < MaxEdits /\ edits' = edits + 1
    /\ edited' = TRUE
    /\ \/ \E k \in DOMAIN Edits : \E v \in Edits[k] :
            /\ settings' = [l \in DOMAIN settings \cup {k} |-> IF l = k THEN v ELSE settings[l]]
            /\ wish' = [wish EXCEPT ![k] = IF k \in Arrays /\ v = Empty THEN NULL ELSE v]
       \/ \E k \in Removals \cap DOMAIN settings :
            /\ settings' = [l \in DOMAIN settings \ {k} |-> settings[l]]
            /\ wish' = [wish EXCEPT ![k] = NULL]
    /\ UNCHANGED <<pc, state, options, talk, tmp>>

Next ==
    \/ Start \/ ReadConfig \/ NoConfig \/ GiveUp \/ Agree \/ AskUrl \/ Login \/ LoginFails
    \/ Connect \/ Stop \/ Open \/ CloseFile \/ Rename \/ Crash \/ Edit

Spec == Init /\ [][Next]_vars

-----------------------------------------------------------------------------
\* Whenever there is a settings file, then, whatever runs of the program were killed or
\* failed half-way, it has every line of a whole one but those the user has removed, and
\* the server, the user and the token in it belong together: they are of one login
\* (config.c 184-245, main.c 358-424).
SettingsWhole ==
    settings # NULL =>
        /\ ~ edited => ToSet(WriteOrder) \ {"mpv_profile"} \subseteq DOMAIN settings
        /\ {"token", "userid"} \subseteq DOMAIN settings => settings["token"] = settings["userid"]
        /\ Fundamental \subseteq DOMAIN settings => settings["token"][1] = settings["server"]

\* Once start-up is over, everything is in force, as far as it fits in its array, that the
\* user has ever answered in a dialogue or entered by hand, or that was first chosen for the
\* user, as the device's id: no series of starts, updates of the file, crashes and logins
\* loses it or gives it to another option (config.c 95-181; "NB options that start with a
\* prefix of other options must go after those!").  Two wishes are not always in force: the
\* check for updates, and, of the verification of host names, the wish to have it on, which
\* the answer no does not restore (config.c 312-314).
WishesInForce ==
    pc \in {"connect", "running"} =>
        \A k \in Keys \ {"check_updates"} :
            wish[k] # NULL /\ <<k, wish[k]>> # <<"ssl_verifyhost", "true">> =>
                options[k] = Stored(k, wish[k])

-----------------------------------------------------------------------------
(***************************************************************************)
(* What the code does not keep.  TLC finds each of these violated, on the  *)
(* constants the README gives; no other property is stated over them.      *)
(***************************************************************************)

\* Having been set by hand, the check for updates stays off ("NB don't write
\* check_updates, we want it set manually", config.c 210).
ChecksAsWished ==
    pc \in {"connect", "running"} /\ wish["check_updates"] = "false" => options["check_updates"] = "false"

\* Host names are verified once the user has answered that they need not be ignored, or has
\* entered that they be verified (config.c 312, "Do you need jftui to ignore hostname
\* validation").
HostVerifiedAsWished ==
    pc \in {"connect", "running"} /\ wish["ssl_verifyhost"] = "true" => options["ssl_verifyhost"] = "true"

\* Nothing is freed that is not allocated (json.c 759-766 frees userid and token).
FreedOnce == pc = "login" => freed \cap {"userid", "token"} = {}
=============================================================================
