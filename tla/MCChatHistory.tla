---------------------------- MODULE MCChatHistory ----------------------------
EXTENDS ChatHistory

\* A short text; one of several batches; a text with an image.
SomeMessages == {<<1>>, <<3>>, <<1, 2>>}
=============================================================================
