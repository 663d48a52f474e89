------------------------------- MODULE MCPresets -------------------------------
(* The requests of Presets: two numbers, two names, and a few command lines. *)
EXTENDS Presets

Symmetry == Permutations(Procs)

MCStart == <<2050, 600>>

MCTorn == { <<0, "a">>, <<1, NoName>> }

MCLines == {
  << <<"jump-abs", <<900, 1350>>>>, <<"jump-abs", <<3600, 0>>>>, <<"babycrying", "maybe">> >>,
  << <<"jump-rel", <<-205, 311>>>>, <<"led", "on">> >>,
  << <<"led", "off">>, <<"remove_preset", Plain(9)>> >>,
  << <<"file", <<"move", "right">>>> >>, << <<"move", "left">> >>,
  << <<"move", "stop">> >> }

MCRequests == {
  <<"add", "a">>, <<"add", "Home">>, <<"nameless", "a">>,
  <<"del", Plain(0)>>, <<"del", AllWord>>, <<"del", <<"other", 1>>>>, <<"del", Plain(All)>>,
  <<"home", "">>, <<"go", <<"cut", 1>>>>, <<"move", "left">> }
================================================================================
