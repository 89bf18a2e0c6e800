------------------------------- MODULE Protocol -------------------------------
(***************************************************************************)
(* The JSON messages between client and server: which fields each side     *)
(* puts in, and which the other side gets.  js["x"] makes a null of a      *)
(* field that is not there, and get<int>(), get<string>() and the          *)
(* conversion to string throw on a null; so does json::parse on anything   *)
(* but one whole JSON text.  Nobody catches these exceptions: the process  *)
(* that reads the message ends.                                            *)
(***************************************************************************)
EXTENDS AesBuffers

\* What the client puts into each request (main.cpp).
RequestFields ==
    [login       |-> {"msgid", "id", "password"},
     loginout    |-> {"msgid", "id"},
     reg         |-> {"msgid", "name", "password"},
     onechat     |-> {"msgid", "id", "name", "dstid", "msg", "time"},
     addfriend   |-> {"msgid", "id"},
     creategroup |-> {"msgid", "userid", "groupname", "groupdesc"},
     addgroup    |-> {"msgid", "userid", "groupid"},
     groupchat   |-> {"msgid", "userid", "name", "time", "groupid", "msg"}]

\* What the handler that _msgHandlerMap has for it gets out of the request.
HandlerGets ==
    [login       |-> {"id", "password"},
     loginout    |-> {"id"},
     reg         |-> {"name", "password"},
     onechat     |-> {"dstid"},
     addfriend   |-> {"id", "friendid"},
     creategroup |-> {"userid", "groupname", "groupdesc"},
     addgroup    |-> {"userid", "groupid"},
     groupchat   |-> {"userid", "groupid"}]

\* onMessage gets msgid for getHandler, then the handler gets the rest.
Served(kind, fields) == {"msgid"} \cup HandlerGets[kind] \subseteq fields

\* What the server writes to a client; a chat is the request, passed on.
MessageFields ==
    [granted   |-> {"msgid", "errno", "id", "name"},
     refused   |-> {"msgid", "errno", "errmsg"},
     onechat   |-> RequestFields.onechat,
     groupchat |-> RequestFields.groupchat]

\* Mutant: the sender is looked up as in the history of offline messages.
ReaderGetsUserid ==
    [main   |-> [granted   |-> {"errno", "name", "id"},
                 refused   |-> {"errno"},
                 onechat   |-> {"errno"},
                 groupchat |-> {"errno"}],
     thread |-> [granted   |-> {"msgid"},
                 refused   |-> {"msgid"},
                 onechat   |-> {"msgid", "time", "userid", "name", "msg"},
                 groupchat |-> {"msgid", "time", "userid", "name", "msg"}]]

\* What the client gets out of it: in main, which waits for the answer to its
\* login, or in the receive thread, which passes over what is not a chat.
ReaderGets ==
    [main   |-> [granted   |-> {"errno", "name", "id"},
                 refused   |-> {"errno"},
                 onechat   |-> {"errno"},
                 groupchat |-> {"errno"}],
     thread |-> [granted   |-> {"msgid"},
                 refused   |-> {"msgid"},
                 onechat   |-> {"msgid", "time", "name", "msg"},
                 groupchat |-> {"msgid", "time", "name", "msg"}]]

Readable(reader, kind) == ReaderGets[reader][kind] \subseteq MessageFields[kind]
==============================================================================
