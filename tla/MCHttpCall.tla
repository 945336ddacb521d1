--------------------------------- MODULE MCHttpCall --------------------------------
EXTENDS HttpCall

\* each class of status: decoded by some parser, success without a document, documented or
\* undocumented refusal
MCStatuses == {200, 201, 204, 299, 400, 404, 409, 418, 503}
MCBodies == Json \cup {"text", "empty"}
====================================================================================
