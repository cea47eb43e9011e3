--------------------------- MODULE MCEntryPoints ----------------------------
(* EntryPoints with a handful of values for every setter: each default,    *)
(* each value some parser does not support, and bytes that collide with    *)
(* the defaults or are not ASCII.                                          *)
EXTENDS EntryPoints

MCNonAscii == {"ff"}

MCChoices ==
  [delimiter |-> {",", ";", "q", "ff"}, terminator |-> {"CRLF", "n", "ff"},
   quote |-> {"q", NoByte}, escape |-> {"q", "e", NoByte}, comment |-> {NoByte, "#", ","},
   quote_handling |-> {"Toggle", "Literal"}, trim |-> {TRUE, FALSE},
   parser_backend |-> ParserBackends, io_backend |-> IoBackends \cup {"Auto"},
   buffer_size |-> {2}, buffer_limit |-> {NoLimit, 1}, io_buffer_limit |-> {1, 4}]

=============================================================================
