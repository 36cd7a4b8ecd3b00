----------------------------- MODULE CommandFiles -----------------------------
(***************************************************************************)
(* The JSON files of a configuration, as far as they say what is sent:     *)
(* scenes of pages, the commands that a page gives to keys and widgets,    *)
(* and the page's command file (Wiki/Pages.md, Wiki/Commands.md; parsing   *)
(* in lib/JsonConfigUI/page/JsonPage.cpp and Command.cpp).                 *)
(*                                                                         *)
(* A command file has one entry per name; a name that a page uses already  *)
(* has the page's prefix.  What is left of an entry's data is the sequence *)
(* of its strings.                                                         *)
(***************************************************************************)
EXTENDS Naturals, Sequences

CONSTANTS
  Keys,
  Pages,
  Scenes,         (* the scene files                                       *)
  Names,          (* of commands                                           *)
  Protocols,      (* what an entry's "Protocol" says                       *)
  Codes,          (* strings in an entry's data                            *)
  ButtonMaps,     (* per page, key and press type, a name or Nothing       *)
  CommandFile,    (* per page and name, an entry or Nothing                *)
  Widgets,        (* per page, the names used by each widget with buttons  *)
  PagesOf,        (* per scene, its pages in order                         *)
  OverrideKeys,   (* per scene, the override keys of each of them          *)
  Nothing

Types == {"Press", "Release", "Repeat", "Long", "Short"}

(* CommandStruct; as an entry, its protocol may be missing.                *)
CommandStruct ==
  [mode : {"NONE", "MQTT", "IR"}, protocol : Protocols \cup {Nothing}, data : Seq(Codes)]

(* What leaves the remote, or is queued to leave it.                       *)
Message == {"MQTT", "IR"} \X Protocols \X Codes

ASSUME FilesAssumption ==
  /\ ButtonMaps \in [Pages -> [Keys -> [Types -> Names \cup {Nothing}]]]
  /\ CommandFile \in [Pages -> [Names -> CommandStruct \cup {Nothing}]]
  /\ Widgets \in [Pages -> SUBSET (SUBSET Names)]
  /\ PagesOf \in [Scenes -> Seq(Pages)]
  /\ OverrideKeys \in [Scenes -> Seq(SUBSET Keys)]
  /\ \A s \in Scenes : Len(OverrideKeys[s]) = Len(PagesOf[s])
  /\ Nothing \notin Names \cup Protocols \cup CommandStruct \cup Message \cup Scenes

Empty == [mode |-> "NONE", protocol |-> Nothing, data |-> << >>]

(* Commands::getCommand: the structure after the search.                   *)
getCommand(p, n, cs) ==
  IF n = Nothing THEN cs
  ELSE IF CommandFile[p][n] = Nothing THEN cs
  ELSE IF CommandFile[p][n].mode = "NONE" \/ CommandFile[p][n].protocol = Nothing
  THEN [cs EXCEPT !.mode = CommandFile[p][n].mode]
  ELSE [mode |-> CommandFile[p][n].mode,
        protocol |-> CommandFile[p][n].protocol,
        data |-> cs.data \o CommandFile[p][n].data]

(* Commands::sendCommand: what it hands on, if anything.                   *)
MessageOf(cs) ==
  IF cs.mode = "NONE" \/ cs.protocol = Nothing \/ cs.data = << >> THEN Nothing
  ELSE IF cs.mode = "MQTT" /\ cs.protocol # "PUB" THEN Nothing
  ELSE <<cs.mode, cs.protocol, cs.data[1]>>

(* The command a page means by a name.                                     *)
Meant == [p \in Pages |-> [n \in Names \cup {Nothing} |->
            IF n = Nothing THEN Nothing ELSE MessageOf(getCommand(p, n, Empty))]]
===============================================================================
