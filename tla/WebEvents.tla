------------------------------ MODULE WebEvents ------------------------------
(***************************************************************************)
(* What the events of a web view tell.  AceWeb makes an object for an      *)
(* event, of a class of AceWebObject.h, and hands it to ArkUI as a pointer *)
(* to anything; ArkUI asks the wrapper of the event's kind, which casts it *)
(* to the class it expects and reads a field.  A cast is not checked: what *)
(* a getter reads of an object of another class is what lies there.        *)
(*                                                                         *)
(* Happened is what WebKit told AceWeb, a function of names to values.     *)
(***************************************************************************)
EXTENDS Integers, Sequences, TLC

CONSTANTS NoObject   \* no object

\* Fields of one representation lie in one another's place.
Numbers == {"x", "y", "contentWidth", "contentHeight", "frameWidth", "frameHeight",
            "newScale", "oldScale"}
Integral == {"errorCode", "messageLevel", "statusCode", "type", "contentLength", "isRefreshed",
             "widths", "heights", "isAlert", "isUserTrigger", "error", "isFatalError",
             "isMainFrame"}

Representation(field) ==
  IF field \in Numbers THEN "float" ELSE IF field \in Integral THEN "integer" ELSE "string"

Object(class, names, values) ==
  [class |-> class, fields |-> [i \in DOMAIN names |-> <<names[i], values[i]>>]]

-----------------------------------------------------------------------------
(***************************************************************************)
(* The classes: a constructor takes its arguments in an order of its own.  *)
(***************************************************************************)
AceWebOnScrollObject(x, y, contentWidth, contentHeight, frameWidth, frameHeight) ==
  Object("Scroll", <<"x", "y", "contentWidth", "contentHeight", "frameWidth", "frameHeight">>,
         <<x, y, contentWidth, contentHeight, frameWidth, frameHeight>>)

\* mutant: the scale before comes first.
AceWebOnScaleChangeObjectOldFirst(oldScale, newScale) ==
  Object("Scale", <<"newScale", "oldScale">>, <<newScale, oldScale>>)

AceWebOnScaleChangeObject(newScale, oldScale) ==
  Object("Scale", <<"newScale", "oldScale">>, <<newScale, oldScale>>)

AceWebOnConsoleObject(message, messageLevel) ==
  Object("Console", <<"message", "messageLevel">>, <<message, messageLevel>>)

AceWebHttpErrorReceiveObject(url, mimeType, contentEncoding, statusCode) ==
  Object("HttpError", <<"requestUrl", "mimeType", "contentEncoding", "statusCode">>,
         <<url, mimeType, contentEncoding, statusCode>>)

AceWebErrorReceiveInfoObject(url, info, code) ==
  Object("Error", <<"requestUrl", "errorInfo", "errorCode">>, <<url, info, code>>)

AceWebDialogObject(url, message, value) ==
  Object("Dialog", <<"url", "message", "value">>, <<url, message, value>>)

AceWebPermissionRequestObject(origin, type) ==
  Object("Permission", <<"origin", "type">>, <<origin, type>>)

AceWebOnHttpAuthRequestObject(host, realm) ==
  Object("HttpAuth", <<"host", "realm">>, <<host, realm>>)

AceWebDownloadResponseObject(url, mimetype, contentLength, userAgent) ==
  Object("Download", <<"url", "mimetype", "contentLength", "userAgent">>,
         <<url, mimetype, contentLength, userAgent>>)

AceWebRefreshAccessedHistoryObject(url, isRefreshed) ==
  Object("History", <<"url", "isRefreshed">>, <<url, isRefreshed>>)

AceWebFullScreenEnterObject(widths, heights) ==
  Object("FullScreen", <<"widths", "heights">>, <<widths, heights>>)

AceWebWindowNewObject(isAlert, isUserTrigger, targetUrl) ==
  Object("WindowNew", <<"isAlert", "isUserTrigger", "targetUrl">>,
         <<isAlert, isUserTrigger, targetUrl>>)

AceWebSslErrorEventObject(error, url, originalUrl, referrer, isFatalError, isMainFrame, chain) ==
  Object("Ssl", <<"error", "url", "originalUrl", "referrer", "isFatalError", "isMainFrame",
                  "certChainData">>,
         <<error, url, originalUrl, referrer, isFatalError, isMainFrame, chain>>)

AceWebOnSslErrorEventReceiveEventObject(error, chain) ==
  Object("SslReceive", <<"error", "certChainData">>, <<error, chain>>)

-----------------------------------------------------------------------------
(***************************************************************************)
(* The wrappers.                                                           *)
(***************************************************************************)
\* The i-th field of a class, whose fields up to it are like those, read of an object.
Get(object, fields, default) ==
  IF object = NoObject THEN default ELSE
  IF /\ Len(fields) <= Len(object.fields)
     /\ \A i \in DOMAIN fields :
          Representation(fields[i]) = Representation(object.fields[i][1])
  THEN object.fields[Len(fields)][2] ELSE "undefined"

\* An address that is empty is read once more, as that of an HTTP error.
ResourceRequest(object) ==
  LET url == Get(object, <<"requestUrl">>, "")
  IN  [GetRequestUrl |-> IF url # "" THEN url ELSE Get(object, <<"requestUrl">>, ""),
       GetMethod |-> "GET", IsRequestGesture |-> TRUE, IsMainFrame |-> TRUE, IsRedirect |-> FALSE,
       GetErrorInfo |-> Get(object, <<"requestUrl", "errorInfo">>, ""),
       GetErrorCode |-> Get(object, <<"requestUrl", "errorInfo", "errorCode">>, 0)]

Scroll(object) ==
  LET names == <<"x", "y", "contentWidth", "contentHeight", "frameWidth", "frameHeight">>
      At(i) == Get(object, SubSeq(names, 1, i), 0)
  IN  [GetX |-> At(1), GetY |-> At(2), GetContentWidth |-> At(3), GetContentHeight |-> At(4),
       GetFrameWidth |-> At(5), GetFrameHeight |-> At(6)]

ScaleChange(object) ==
  [GetNewScale |-> Get(object, <<"newScale">>, 0),
   GetOldScale |-> Get(object, <<"newScale", "oldScale">>, 0)]

ConsoleMessage(object) ==
  [GetMessage |-> Get(object, <<"message">>, ""),
   GetMessageLevel |-> Get(object, <<"message", "messageLevel">>, 0),
   GetLineNumber |-> 0, GetSourceId |-> "SourceId"]

\* mutant: the encoding is read where the type is.
ResourceResponseShifted(object) ==
  [GetMimeType |-> Get(object, <<"requestUrl", "mimeType">>, ""),
   GetEncoding |-> Get(object, <<"requestUrl", "mimeType">>, ""),
   GetStatusCode |-> Get(object, <<"requestUrl", "mimeType", "contentEncoding", "statusCode">>, 0),
   GetResponseData |-> "ResponseData", GetReason |-> "ResponseReason"]

ResourceResponse(object) ==
  [GetMimeType |-> Get(object, <<"requestUrl", "mimeType">>, ""),
   GetEncoding |-> Get(object, <<"requestUrl", "mimeType", "contentEncoding">>, ""),
   GetStatusCode |-> Get(object, <<"requestUrl", "mimeType", "contentEncoding", "statusCode">>, 0),
   GetResponseData |-> "ResponseData", GetReason |-> "ResponseReason"]

CommonDialog(object) ==
  [GetUrl |-> Get(object, <<"url">>, ""), GetMessage |-> Get(object, <<"url", "message">>, ""),
   GetValue |-> Get(object, <<"url", "message", "value">>, "")]

RefreshAccessedHistory(object) ==
  [GetUrl |-> Get(object, <<"url">>, ""),
   GetIsRefreshed |-> Get(object, <<"url", "isRefreshed">>, FALSE)]

PermissionRequest(object) ==
  [GetOrigin |-> Get(object, <<"origin">>, ""),
   GetResourcesId |-> Get(object, <<"origin", "type">>, 0)]

HttpAuthRequest(object) ==
  [GetHost |-> Get(object, <<"host">>, ""), GetRealm |-> Get(object, <<"host", "realm">>, "")]

DownloadResponse(object) ==
  [GetUrl |-> Get(object, <<"url">>, ""),
   GetMimetype |-> Get(object, <<"url", "mimetype">>, ""),
   GetContentLength |-> Get(object, <<"url", "mimetype", "contentLength">>, 0),
   GetUserAgent |-> Get(object, <<"url", "mimetype", "contentLength", "userAgent">>, ""),
   GetContentDisposition |-> "contentDisposition"]

FullScreenEnter(object) ==
  [GetWidths |-> Get(object, <<"widths">>, 0),
   GetHeights |-> Get(object, <<"widths", "heights">>, 0)]

WindowNewObject(object) ==
  [IsAlert |-> Get(object, <<"isAlert">>, FALSE),
   IsUserTrigger |-> Get(object, <<"isAlert", "isUserTrigger">>, FALSE),
   GetTargetUrl |-> Get(object, <<"isAlert", "isUserTrigger", "targetUrl">>, "")]

SslErrorEvent(object) ==
  LET names == <<"error", "url", "originalUrl", "referrer", "isFatalError", "isMainFrame",
                 "certChainData">>
      At(i, default) == Get(object, SubSeq(names, 1, i), default)
  IN  [GetError |-> At(1, -1), GetUrl |-> At(2, ""), GetOriginalUrl |-> At(3, ""),
       GetReferrer |-> At(4, ""), IsFatalError |-> At(5, FALSE), IsMainFrame |-> At(6, FALSE),
       GetCertificateChain |-> At(7, <<>>)]

SslErrorEventReceive(object) ==
  [GetError |-> Get(object, <<"error">>, -1),
   GetCertChainData |-> Get(object, <<"error", "certChainData">>, <<>>)]

-----------------------------------------------------------------------------
(***************************************************************************)
(* The events: the object AceWeb makes of what happened, the wrappers      *)
(* ArkUI asks about it, and what each getter should tell.  A scroll that   *)
(* only starts or ends tells no sizes.                                     *)
(***************************************************************************)
Percent(scale) == <<"100 times", scale>>

EventObject(event, is) ==
  CASE event = "onScroll" ->
         AceWebOnScrollObject(is.x, is.y, is.contentWidth, is.contentHeight,
                              is.frameWidth, is.frameHeight)
    [] event = "onScrollEnd" -> AceWebOnScrollObject(is.x, is.y, 0, 0, 0, 0)
    [] event = "onScaleChange" -> AceWebOnScaleChangeObject(Percent(is.newScale), is.oldScale)
    [] event = "onConsoleMessage" -> AceWebOnConsoleObject(is.message, is.messageLevel)
    [] event = "onHttpErrorReceive" ->
         AceWebHttpErrorReceiveObject(is.url, is.mimeType, is.contentEncoding, is.statusCode)
    [] event = "onErrorReceive" -> AceWebErrorReceiveInfoObject(is.url, is.errorInfo, is.errorCode)
    [] event = "onLoadIntercept" -> AceWebErrorReceiveInfoObject(is.url, "", 0)
    [] event = "onAlert" -> AceWebDialogObject(is.url, is.message, "")
    [] event = "onPrompt" -> AceWebDialogObject(is.url, is.message, is.value)
    [] event = "onPermissionRequest" -> AceWebPermissionRequestObject(is.origin, is.type)
    [] event = "onHttpAuthRequest" -> AceWebOnHttpAuthRequestObject(is.host, is.realm)
    [] event = "onDownloadStart" ->
         AceWebDownloadResponseObject(is.url, is.mimetype, is.contentLength, is.userAgent)
    [] event = "onRefreshAccessedHistory" ->
         AceWebRefreshAccessedHistoryObject(is.url, is.isRefreshed)
    [] event = "onFullScreenEnter" -> AceWebFullScreenEnterObject(is.width, is.height)
    [] event = "onWindowNew" -> AceWebWindowNewObject(FALSE, is.isUserTrigger, is.targetUrl)
    [] event = "onSslErrorEvent" ->
         AceWebSslErrorEventObject(is.error, is.pageUrl, is.url, is.referrer, FALSE,
                                   is.isMainFrame, is.chain)
    [] event = "onSslErrorEventReceive" ->
         AceWebOnSslErrorEventReceiveEventObject(is.error, is.chain)

Told(event, object) ==
  CASE event \in {"onScroll", "onScrollEnd"} -> Scroll(object)
    [] event = "onScaleChange" -> ScaleChange(object)
    [] event = "onConsoleMessage" -> ConsoleMessage(object)
    [] event = "onHttpErrorReceive" ->
         [GetRequestUrl |-> ResourceRequest(object).GetRequestUrl] @@ ResourceResponse(object)
    [] event \in {"onErrorReceive", "onLoadIntercept"} -> ResourceRequest(object)
    [] event \in {"onAlert", "onPrompt"} -> CommonDialog(object)
    [] event = "onPermissionRequest" -> PermissionRequest(object)
    [] event = "onHttpAuthRequest" -> HttpAuthRequest(object)
    [] event = "onDownloadStart" -> DownloadResponse(object)
    [] event = "onRefreshAccessedHistory" -> RefreshAccessedHistory(object)
    [] event = "onFullScreenEnter" -> FullScreenEnter(object)
    [] event = "onWindowNew" -> WindowNewObject(object)
    [] event = "onSslErrorEvent" -> SslErrorEvent(object)
    [] event = "onSslErrorEventReceive" -> SslErrorEventReceive(object)

\* What happens in an event, and what of it each getter of its wrappers is to tell.
Facts ==
  [onScroll |-> [GetX |-> "x", GetY |-> "y", GetContentWidth |-> "contentWidth",
                 GetContentHeight |-> "contentHeight", GetFrameWidth |-> "frameWidth",
                 GetFrameHeight |-> "frameHeight"],
   onScrollEnd |-> [GetX |-> "x", GetY |-> "y"],
   onScaleChange |-> [GetOldScale |-> "oldScale"],
   onConsoleMessage |-> [GetMessage |-> "message", GetMessageLevel |-> "messageLevel"],
   onHttpErrorReceive |-> [GetRequestUrl |-> "url", GetMimeType |-> "mimeType",
                           GetEncoding |-> "contentEncoding", GetStatusCode |-> "statusCode"],
   onErrorReceive |-> [GetRequestUrl |-> "url", GetErrorInfo |-> "errorInfo",
                       GetErrorCode |-> "errorCode"],
   onLoadIntercept |-> [GetRequestUrl |-> "url"],
   onAlert |-> [GetUrl |-> "url", GetMessage |-> "message"],
   onPrompt |-> [GetUrl |-> "url", GetMessage |-> "message", GetValue |-> "value"],
   onPermissionRequest |-> [GetOrigin |-> "origin", GetResourcesId |-> "type"],
   onHttpAuthRequest |-> [GetHost |-> "host", GetRealm |-> "realm"],
   onDownloadStart |-> [GetUrl |-> "url", GetMimetype |-> "mimetype",
                        GetContentLength |-> "contentLength", GetUserAgent |-> "userAgent"],
   onRefreshAccessedHistory |-> [GetUrl |-> "url", GetIsRefreshed |-> "isRefreshed"],
   onFullScreenEnter |-> [GetWidths |-> "width", GetHeights |-> "height"],
   onWindowNew |-> [IsUserTrigger |-> "isUserTrigger", GetTargetUrl |-> "targetUrl"],
   onSslErrorEvent |-> [GetError |-> "error", GetUrl |-> "pageUrl", GetOriginalUrl |-> "url",
                        GetReferrer |-> "referrer", IsMainFrame |-> "isMainFrame",
                        GetCertificateChain |-> "chain"],
   onSslErrorEventReceive |-> [GetError |-> "error", GetCertChainData |-> "chain"]]

-----------------------------------------------------------------------------
\* A handler of an event is told what happened: no getter reads another field of the
\* object, or an object of another class as if it were its own.
EventTold(event, is) ==
  LET told == Told(event, EventObject(event, is))
  IN  /\ \A getter \in DOMAIN Facts[event] : told[getter] = is[Facts[event][getter]]
      /\ event = "onScaleChange" => told.GetNewScale = Percent(is.newScale)
=============================================================================
