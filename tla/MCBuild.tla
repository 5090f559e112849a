------------------------------- MODULE MCBuild -------------------------------
(* Command lines for Build on macOS.                                       *)
EXTENDS Build

Line(cmd, named, scope, continues, clean, dry) ==
  [cmd |-> cmd, named |-> named, scope |-> scope, continues |-> continues,
   clean |-> clean, dry |-> dry, product |-> None,
   env |-> [k \in EnvKeys |-> "unset"], lacks |-> {}]

(* .env names the SDK and the validator's archive; an empty variable hides *)
(* the archive from one command line.                                      *)
MCDotEnv == [k \in EnvKeys |-> "there"]
NoArchive(r) == [r EXCEPT !.env["AAX_VALIDATOR_DSH_ARCHIVE"] = "empty"]

(* Two products; in the second manifest they share a standalone's name, in *)
(* the third all artifacts have others.                                    *)
Entry(i, standalone) ==
  [malformed |-> {}, id |-> i, standalone |-> standalone, au |-> i, stems |-> <<"s">>]
MCMetadata ==
  [m \in Metas |->
     [malformed |-> {}, unexplained |-> FALSE, formats |-> <<"Vst3", "Au", "Aax">>,
      name |-> IF m = "m3" THEN 3 ELSE 1,
      plugins |-> CASE m = "m1" -> <<Entry(1, 1), Entry(2, 2)>>
                    [] m = "m2" -> <<Entry(1, 1), Entry(2, 1)>>
                    [] m = "m3" -> <<Entry(1, 2), Entry(2, 3)>>]]

Knob(i) ==
  [id |-> i, hidden |-> FALSE, readonly |-> FALSE, bypass |-> FALSE,
   stepped |-> FALSE, enum |-> FALSE, unit |-> TRUE, boolean |-> TRUE]
Bypass(i) == [Knob(i) EXCEPT !.bypass = TRUE, !.stepped = TRUE, !.enum = TRUE]

(* The first version breaks the rule about VST3 parameter ids, the next    *)
(* one does not; both export two plug-ins and disable a rule.              *)
MCProduct ==
  [v \in 1..MaxEdits + 1 |->
     [plugins |-> <<<<Knob(0), Knob(IF v = 1 THEN 2 ELSE 1), Bypass(2)>>, <<Knob(0), Bypass(1)>>>>,
      placeholders |-> {}, template |-> FALSE, disabled |-> {"single knob"}]]

MCRequests ==
  {Line("install", {}, "default", TRUE, FALSE, FALSE),
   Line("install", {}, "user", FALSE, FALSE, FALSE),
   Line("install", {"Au"}, "system", FALSE, FALSE, FALSE),
   Line("build", {"Standalone"}, "default", FALSE, TRUE, FALSE),
   Line("build", {}, "default", TRUE, FALSE, TRUE),
   Line("validate", {}, "default", TRUE, FALSE, FALSE),
   Line("validate", {"Au", "Aax"}, "default", TRUE, FALSE, FALSE),
   NoArchive(Line("validate", {"Aax"}, "default", FALSE, FALSE, FALSE)),
   [Line("install", {"Vst3"}, "default", FALSE, FALSE, FALSE) EXCEPT !.lacks = {"AudioUnitSDK"}],
   [Line("launch", {"Standalone"}, "default", FALSE, FALSE, FALSE) EXCEPT !.product = 2],
   Line("clean", {}, "default", FALSE, FALSE, FALSE),
   Line("uninstall", {"Clap"}, "user", FALSE, FALSE, FALSE)}
  \cup {Line("uninstall", {}, "all", TRUE, FALSE, d) : d \in BOOLEAN}

=============================================================================
