----------------------------- MODULE MCPluginHost -----------------------------
(* PluginHost with a plugin that is instance-safe, one that is serial, another *)
(* file with the serial one's name and units that do not convert, and a broken *)
(* file.                                                                       *)
EXTENDS PluginHost

Names    == {"lennard-jones", "xtb", "mace"}
NamesOf  == <<"mace", "xtb", "xtb", "lennard-jones">>
SomePath == << {2}, {4, 3} >>
=============================================================================
