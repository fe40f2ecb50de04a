-------------------------- MODULE MCAdapterProcess --------------------------
(***************************************************************************)
(* A small instance: up to three arguments over two socket texts, so that  *)
(* a third argument has to repeat one, with a chardev and an Ethernet      *)
(* option whose order on the command line differs from main's.             *)
(***************************************************************************)
EXTENDS AdapterProcess

MCArgument(option, socket, wellFormed, setting) ==
    [option |-> option, socket |-> socket, wellFormed |-> wellFormed, setting |-> setting]

\* One with two names, one that is not a network, one without and one with a controller's name.
MCSettings == {
    <<<<"network">>, <<"n", "c", "d">>>>, <<<<"net">>, <<"n">>>>,
    <<<<"network">>, <<"n">>>>, <<<<"network">>, <<"n", "SilKit_ETH_CTRL_1">>>>}

MCArguments ==
    {MCArgument("unixChardev", s, wellFormed, <<>>) : s \in Sockets, wellFormed \in BOOLEAN}
    \cup {MCArgument("eth", s, TRUE, setting) : s \in Sockets, setting \in MCSettings}

MCShortLines == [mode : {"run"}, args : BoundedSeq(MCArguments, 2)]

MCLongLine ==
    LET s == CHOOSE s \in Sockets : TRUE
        setting == <<<<"network">>, <<"n", "">>>>
    IN  [mode |-> "run",
         args |-> << MCArgument("eth", s, TRUE, setting),
                     MCArgument("chardev", s, FALSE, <<>>),
                     MCArgument("unixEth", s, TRUE, setting) >>]

MCCommandLines ==
    MCShortLines \cup {MCLongLine} \cup [mode : {"info", "unknown"}, args : {<<>>}]
=============================================================================
