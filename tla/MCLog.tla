------------------------------- MODULE MCLog -------------------------------
(***************************************************************************)
(* Instances of Log for TLC.  Two directories whose paths have the same    *)
(* length, then two that have not.                                         *)
(***************************************************************************)
EXTENDS Log

CONSTANTS root, home, a, b   \* parts of a path

MCParts == {root, home, a, b}
MCHOME == <<root, home>>

\* level=ERROR, level=DEBUG and level=ALL.
Conf(path, levels) == [path |-> path, level |-> levels]
EvenConfigs ==
  {Conf(<<root, a>>, {"ERROR"}), Conf(<<root, b>>, {"DEBUG"}), Conf(<<root, b>>, Levels)}
UnevenConfigs == {Conf(<<root, a>>, Levels), Conf(<<root, a, b>>, Levels)}
=============================================================================
