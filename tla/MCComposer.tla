----------------------------- MODULE MCComposer -----------------------------
(* Composer with short conversations of one sender. *)
EXTENDS Composer

MCConversations ==
    {<<"whisper", "secret", "whisper", "none">>,
     <<"whisper", "secret", "cancel", "none">>,
     <<"whisper", "secret", "secret", "none">>}

\* Two whispers within the hour, where the messages are handled in order.
MCTwoWhispers == <<"whisper", "secret", "whisper", "secret">>

\* Polling always with a guest request that competes for the secrets; the webhook,
\* which has far more interleavings, with one where /cancel ends it.
MCStarts ==
    [kind : MCConversations, polling : {TRUE}, guest : {"awaiting_secret"},
     faults : {{"crash"}, {"database"}}]
    \union
    [kind : {MCTwoWhispers}, polling : {TRUE}, guest : {"none"}, faults : {{"crash"}}]
    \union
    [kind : MCConversations, polling : {FALSE}, guest : {"none"}, faults : {{"crash"}}]
    \union
    [kind : {<<"whisper", "secret", "cancel", "none">>}, polling : {FALSE},
     guest : {"awaiting_secret"}, faults : {{"database"}}]
=============================================================================
